---- MODULE Spec2Model ----
(***************************************************************************)
(* The Instagram data-acquisition cascade of my-zen-space: the             *)
(* auto-fetch-instagram orchestrator with its AI consensus resolver, the   *)
(* edge functions that persist a follower count, and the client-side       *)
(* persistence gate of DynamicPage.fetchInstagramFollowers.                *)
(*                                                                         *)
(* JavaScript values are modelled as follows.  A string is a TLA+ string.  *)
(* A nullable value is a sequence: <<>> is null, <<v>> is the value v.     *)
(* A number is an integer (every count the code handles is a non-negative  *)
(* integer below 2^31 in the inputs enumerated here).                      *)
(***************************************************************************)
EXTENDS Integers, Sequences, FiniteSets, TLC

VARIABLES
  \* one invocation of an edge function
  pc,              \* where the handler stands
  req,             \* the request body: url, whether an itemId came with it
  response,        \* the Response returned
  firecrawlKey,    \* Deno.env.get('FIRECRAWL_API_KEY') is set
  lovableKey,      \* Deno.env.get('LOVABLE_API_KEY') is set
  \* auto-fetch-instagram
  avatarUrl,       \* let avatarUrl: string | null
  followersCount,  \* let followersCount: number | null
  method,          \* let method
  attempts,        \* the extractors called so far, each with what it returned
  aiPending,       \* the model queries of tryAiConsensus still in flight
  aiResults,       \* results of Promise.all, by position in models
  aiOut,           \* what tryAiConsensus returned
  \* fetch-instagram-data
  tried,           \* the methods attempted so far, each with how it ended
  \* the handlers that persist
  extracted,       \* let followersCount: string | null of such a handler
  \* one call of a pure function of the value parser or of the formatter
  call,            \* NULL, or the function, its argument and what it returned
  store,           \* page_items.followers_count of the item, in the datastore
  writes,          \* every update of followers_count issued, in order
  \* DynamicPage.fetchInstagramFollowers
  cpc,             \* where fetchInstagramFollowers stands
  item,            \* the PageItem it was called with
  localCount,      \* followers_count of the item in the items state
  toasts,          \* the toasts shown, in order
  \* InstagramAvatar
  avatarCache,     \* const avatarCache: Record<string, string | null>
  comps,           \* the InstagramAvatar instances: their prop and their state
  runs,            \* the runs of fetchAvatar, by instance and by effect
  \* BatchOcrDialog
  mappings,        \* const [mappings, setMappings] = useState<ImageMapping[]>([])
  batch,           \* the run of processAll: its closure, its position, its effects
  \* sync-google-sheet
  notes,           \* the notes of the user in the datastore: how many have each title
  syncs            \* the invocations of sync-google-sheet, by what started them

orchLocals == <<avatarUrl, followersCount, method, attempts, aiPending, aiResults, aiOut>>

clientVars == <<cpc, item, localCount, toasts>>

pageVars == <<avatarCache, comps, runs, mappings, batch, notes, syncs>>

vars == <<pc, req, response, firecrawlKey, lovableKey, orchLocals, tried, extracted,
          call, store, writes, clientVars, pageVars>>

\* What an action of auto-fetch-instagram leaves alone.
notOrch == <<req, tried, extracted, call, store, writes, clientVars, pageVars>>

NULL == <<>>
Some(v) == <<v>>
Val(o) == o[1]

----------------------------------------------------------------------------
(* Strings *)

Chr(s, i) == SubSeq(s, i, i)

Digits == {"0", "1", "2", "3", "4", "5", "6", "7", "8", "9"}

DigitVal(c) ==
  CASE c = "0" -> 0 [] c = "1" -> 1 [] c = "2" -> 2 [] c = "3" -> 3
    [] c = "4" -> 4 [] c = "5" -> 5 [] c = "6" -> 6 [] c = "7" -> 7
    [] c = "8" -> 8 [] c = "9" -> 9

DigitChr(d) ==
  CASE d = 0 -> "0" [] d = 1 -> "1" [] d = 2 -> "2" [] d = 3 -> "3"
    [] d = 4 -> "4" [] d = 5 -> "5" [] d = 6 -> "6" [] d = 7 -> "7"
    [] d = 8 -> "8" [] d = 9 -> "9"

\* String(n) for a non-negative integer n: its decimal digits.
RECURSIVE NumToStr(_)
NumToStr(n) == IF n < 10 THEN DigitChr(n) ELSE NumToStr(n \div 10) \o DigitChr(n % 10)

\* Number(s) for a string of decimal digits.
RECURSIVE DigitsUpTo(_, _)
DigitsUpTo(s, k) == IF k = 0 THEN 0 ELSE 10 * DigitsUpTo(s, k - 1) + DigitVal(Chr(s, k))

DigitsToNum(s) == DigitsUpTo(s, Len(s))

\* The characters of s from the i-th on, those equal to c left out.
RECURSIVE DropChar(_, _, _)
DropChar(s, c, i) ==
  IF i > Len(s) THEN ""
  ELSE (IF Chr(s, i) = c THEN "" ELSE Chr(s, i)) \o DropChar(s, c, i + 1)

\* s.replace(/,/g, '')
RemoveCommas(s) == DropChar(s, ",", 1)

MinOf(S) == CHOOSE x \in S : \A y \in S : x <= y
MaxOf(S) == CHOOSE x \in S : \A y \in S : x >= y

\* s.trim(), for the one whitespace character of the inputs, the space.
Trim(s) ==
  LET ink == {i \in 1..Len(s) : Chr(s, i) # " "}
  IN IF ink = {} THEN "" ELSE SubSeq(s, MinOf(ink), MaxOf(ink))

AllIn(s, set) == \A i \in 1..Len(s) : Chr(s, i) \in set

\* /^\d+$/
IsPureDigits(s) == Len(s) >= 1 /\ AllIn(s, Digits)

\* /^\d[\d,]*$/
LooksLikeNumber(s) ==
  Len(s) >= 1 /\ Chr(s, 1) \in Digits /\ AllIn(s, Digits \cup {","})

\* The part of s before its trailing spaces.
TrimRight(s) ==
  LET ink == {i \in 1..Len(s) : Chr(s, i) # " "}
  IN IF ink = {} THEN "" ELSE SubSeq(s, 1, MaxOf(ink))

SuffixLetters == {"K", "k", "M", "m"}

\* The match of groups 1 and 2 of /^(<set>+)\s*([KkMm])$/ on s, or NULL.
SuffixMatch(s, set) ==
  IF Len(s) < 2 \/ Chr(s, Len(s)) \notin SuffixLetters THEN NULL
  ELSE LET body == TrimRight(SubSeq(s, 1, Len(s) - 1))
       IN IF Len(body) >= 1 /\ AllIn(body, set)
          THEN Some([num |-> body, suffix |-> Chr(s, Len(s))])
          ELSE NULL

----------------------------------------------------------------------------
(* Value Parser: auto-fetch-instagram parseAiFollowers *)

Pow10(k) == CASE k = 0 -> 1 [] k = 1 -> 10 [] k = 2 -> 100 [] k = 3 -> 1000
              [] k = 4 -> 10000 [] k = 5 -> 100000 [] k = 6 -> 1000000

CountDots(s) == Cardinality({i \in 1..Len(s) : Chr(s, i) = "."})

RemoveDots(s) == DropChar(s, ".", 1)

\* The number of characters after the dot of s (0 when s has no dot).
FracLen(s) ==
  IF CountDots(s) = 0 THEN 0
  ELSE Len(s) - (CHOOSE i \in 1..Len(s) : Chr(s, i) = ".")

\* Number(s) is finite, for s matching [\d.]+: at most one dot and a digit.
IsDecimal(s) == CountDots(s) <= 1 /\ Len(RemoveDots(s)) >= 1

\* Math.round(Number(s) * mult) for a decimal s: the mantissa is n / 10^k with
\* n the digits of s and k its fraction length; Math.round rounds a half up.
\* The double product rounds to the same integer for every mantissa
\* enumerated in this model (1.2345 * 1000 is the double 1234.5, 1.4995 *
\* 1000 the double 1499.5).  RoundScaledDown is Math.floor in its place.
RoundScaledDown(s, mult) ==
  (DigitsToNum(RemoveDots(s)) * mult) \div Pow10(FracLen(s))
RoundScaled(s, mult) ==
  LET n == DigitsToNum(RemoveDots(s))
      p == Pow10(FracLen(s))
  IN (2 * n * mult + p) \div (2 * p)

\* parseAiFollowers(value) on String(value); NULL is JavaScript's null.
parseAiFollowers(value) ==
  LET raw == Trim(value)
      suffix == SuffixMatch(raw, Digits \cup {"."})
  IN IF LooksLikeNumber(raw) THEN Some(DigitsToNum(RemoveCommas(raw)))
     ELSE IF suffix # NULL
          THEN IF ~IsDecimal(Val(suffix).num) THEN NULL
               ELSE Some(RoundScaled(Val(suffix).num,
                                     IF Val(suffix).suffix \in {"M", "m"} THEN 1000000 ELSE 1000))
     ELSE NULL

----------------------------------------------------------------------------
(* Consensus Resolver: the tail of tryAiConsensus *)

\* results.filter(n => typeof n === 'number'): the non-null results, in order.
RECURSIVE FilterNumbers(_)
FilterNumbers(results) ==
  IF Len(results) = 0 THEN <<>>
  ELSE (IF Head(results) = NULL THEN <<>> ELSE <<Val(Head(results))>>)
       \o FilterNumbers(Tail(results))

\* Insert x into the ascending sequence s.
RECURSIVE InsertAsc(_, _)
InsertAsc(x, s) ==
  IF Len(s) = 0 THEN <<x>>
  ELSE IF x <= Head(s) THEN <<x>> \o s
  ELSE <<Head(s)>> \o InsertAsc(x, Tail(s))

\* [...values].sort((a, b) => a - b)
RECURSIVE SortAsc(_)
SortAsc(s) == IF Len(s) = 0 THEN <<>> ELSE InsertAsc(Head(s), SortAsc(Tail(s)))

Max2(a, b) == IF a >= b THEN a ELSE b
Abs(a) == IF a >= 0 THEN a ELSE -a

\* diff / Math.max(a, b, 1) <= 0.02.  The literal 0.02 is the double nearest
\* 1/50 and the quotient is correctly rounded, so for integers below 2^31 the
\* test is exactly 50 * diff <= max(a, b, 1), that is diff <= max(a, b, 1) \div 50.
WithinToleranceStrict(a, b) == Abs(a - b) <= (Max2(Max2(a, b), 1) - 1) \div 50
WithinTolerance(a, b) == Abs(a - b) <= Max2(Max2(a, b), 1) \div 50

\* Math.round((a + b) / 2)
RoundMean(a, b) == (a + b + 1) \div 2

\* The first pair (i, j), i < j, that the nested loops of lines 184-190 find
\* within tolerance: the least i, and for it the least j.  LastAgreeingPair
\* is the pair the loops would find last.
LastAgreeingPair(sorted) ==
  LET n == Len(sorted)
      agreeing == {<<i, j>> \in (1..n) \X (1..n) :
                     i < j /\ WithinTolerance(sorted[i], sorted[j])}
  IN IF agreeing = {} THEN NULL
     ELSE Some(CHOOSE p \in agreeing :
                 \A q \in agreeing : p[1] > q[1] \/ (p[1] = q[1] /\ p[2] >= q[2]))
FirstAgreeingPair(sorted) ==
  LET n == Len(sorted)
      agreeing == {<<i, j>> \in (1..n) \X (1..n) :
                     i < j /\ WithinTolerance(sorted[i], sorted[j])}
  IN IF agreeing = {} THEN NULL
     ELSE Some(CHOOSE p \in agreeing :
                 \A q \in agreeing : p[1] < q[1] \/ (p[1] = q[1] /\ p[2] <= q[2]))

MiddleIndexLow(n) == (n - 1) \div 2 + 1
\* Math.floor(n / 2), as a 1-based index
MiddleIndex(n) == n \div 2 + 1

\* lines 180-192: from the models' results to {followersCount, confidence}
Consensus(results) ==
  LET values == FilterNumbers(results)
      sorted == SortAsc(values)
      pair == FirstAgreeingPair(sorted)
  IN IF Len(values) < 2
     THEN [followersCount |-> IF Len(values) = 0 THEN NULL ELSE Some(values[1]),
           confidence |-> "low"]
     ELSE IF pair # NULL
          THEN [followersCount |-> Some(RoundMean(sorted[Val(pair)[1]], sorted[Val(pair)[2]])),
                confidence |-> "high"]
          ELSE [followersCount |-> Some(sorted[MiddleIndex(Len(sorted))]),
                confidence |-> "low"]

----------------------------------------------------------------------------
(* auto-fetch-instagram: the orchestrator *)

\* const models = [...]
NumModels == 3
Models == 1..NumModels

\* The follower counts a network extractor may read from its source.
NetCounts == {0, 1200, 98000000}

\* The URL an extractor returns stands for any URL; it is tagged with the
\* extractor's name so that the origin of the final avatarUrl can be told.
UrlOf(name) == "https://" \o name

\* What a FetchResult-returning extractor may do: throw (fetch rejects,
\* resp.json() throws) or return avatarUrl and followersCount, each nullable.
Outcomes(name) ==
  {[name |-> name, threw |-> TRUE, avatarUrl |-> NULL, followersCount |-> NULL]}
  \cup {[name |-> name, threw |-> FALSE, avatarUrl |-> a, followersCount |-> f] :
          a \in {NULL, Some(UrlOf(name))},
          f \in {NULL} \cup {Some(n) : n \in NetCounts}}

\* The followers field a model's reply carries, as String(parsed.followers).
AiRawValues == {"0", "48", "49", "50", "10000", "10,100", "10200", "20000", "50000",
                "50.5K", "100000000", "abc"}

\* method = method === 'none' ? name : method + '+' + name
MethodSet(m, name) == name
MethodAdd(m, name) == IF m = "none" THEN name ELSE m \o "+" \o name

\* if (!avatarUrl && r.avatarUrl) avatarUrl = r.avatarUrl
MergeAvatar(cur, new) == IF cur = NULL /\ new # NULL THEN new ELSE cur

\* if (followersCount === null && r.followersCount !== null) followersCount = ...
MergeFollowersLast(cur, new) == IF new # NULL THEN new ELSE cur
MergeFollowers(cur, new) == IF cur = NULL /\ new # NULL THEN new ELSE cur

\* !avatarUrl || followersCount === null
NeedMoreAlways(av, fc) == TRUE
NeedMore(av, fc) == av = NULL \/ fc = NULL

\* The body of the success Response.
SuccessBody(av, fc, m) ==
  [success |-> TRUE,
   avatarUrl |-> av,
   followersCount |-> IF fc # NULL THEN Some(NumToStr(Val(fc))) ELSE NULL,
   method |-> m]

\* An error Response: its HTTP status and its body.
ErrorBodyBare(status, msg) == [status |-> status, error |-> msg]
ErrorBody(status, msg) == [success |-> FALSE, status |-> status, error |-> msg]

OrchInit ==
  /\ avatarUrl = NULL
  /\ followersCount = NULL
  /\ method = "none"
  /\ attempts = <<>>
  /\ aiPending = {}
  /\ aiResults = [m \in Models |-> NULL]
  /\ aiOut = NULL

\* lines 200-212: the request body is read; a body that is no JSON throws into
\* the outer catch, a missing username is answered at once.
Start ==
  /\ pc = "start"
  /\ \E body \in {"username", "empty", "malformed"} :
       /\ pc' = IF body = "username" THEN "unavatar" ELSE "done"
       /\ response' = CASE body = "username" -> NULL
                        [] body = "empty" -> Some(ErrorBody(200, "Username is required"))
                        [] body = "malformed" -> Some(ErrorBody(500, "Unexpected token"))
  /\ UNCHANGED <<avatarUrl, followersCount, method, firecrawlKey, lovableKey,
                 attempts, aiPending, aiResults, aiOut>>
  /\ UNCHANGED notOrch

\* lines 214-222: tryUnavatar never throws and returns a URL or null.
UnavatarStep ==
  /\ pc = "unavatar"
  /\ \E ua \in {NULL, Some(UrlOf("unavatar"))} :
       /\ attempts' = Append(attempts, [name |-> "unavatar", threw |-> FALSE,
                                        avatarUrl |-> ua, followersCount |-> NULL])
       /\ avatarUrl' = IF ua # NULL THEN ua ELSE avatarUrl
       /\ method' = IF ua # NULL THEN "unavatar" ELSE method
  /\ pc' = "webapi"
  /\ UNCHANGED <<followersCount, firecrawlKey, lovableKey, aiPending, aiResults,
                 aiOut, response>>
  /\ UNCHANGED notOrch

\* lines 224-230
WebApiStep ==
  /\ pc = "webapi"
  /\ \E r \in Outcomes("web-api") :
       /\ attempts' = Append(attempts, r)
       /\ IF r.threw
          THEN UNCHANGED <<avatarUrl, followersCount, method>>
          ELSE LET fc == IF r.followersCount # NULL THEN r.followersCount
                         ELSE followersCount
               IN /\ avatarUrl' = MergeAvatar(avatarUrl, r.avatarUrl)
                  /\ followersCount' = fc
                  /\ method' = IF fc # NULL THEN MethodAdd(method, "web-api") ELSE method
  /\ pc' = "html"
  /\ UNCHANGED <<firecrawlKey, lovableKey, aiPending, aiResults, aiOut, response>>
  /\ UNCHANGED notOrch

\* The body shared by lines 234-239 and 245-250.
FillIn(r) ==
  /\ attempts' = Append(attempts, r)
  /\ IF r.threw
     THEN UNCHANGED <<avatarUrl, followersCount, method>>
     ELSE LET av == MergeAvatar(avatarUrl, r.avatarUrl)
              fc == MergeFollowers(followersCount, r.followersCount)
          IN /\ avatarUrl' = av
             /\ followersCount' = fc
             /\ method' = IF av # NULL \/ fc # NULL THEN MethodAdd(method, r.name)
                          ELSE method

\* lines 232-240
HtmlStep ==
  /\ pc = "html"
  /\ IF NeedMore(avatarUrl, followersCount)
     THEN \E r \in Outcomes("html") : FillIn(r)
     ELSE UNCHANGED <<attempts, avatarUrl, followersCount, method>>
  /\ pc' = "firecrawl"
  /\ UNCHANGED <<firecrawlKey, lovableKey, aiPending, aiResults, aiOut, response>>
  /\ UNCHANGED notOrch

\* lines 242-251
FirecrawlStep ==
  /\ pc = "firecrawl"
  /\ IF NeedMore(avatarUrl, followersCount) /\ firecrawlKey
     THEN \E r \in Outcomes("firecrawl") : FillIn(r)
     ELSE UNCHANGED <<attempts, avatarUrl, followersCount, method>>
  /\ pc' = "ai"
  /\ UNCHANGED <<firecrawlKey, lovableKey, aiPending, aiResults, aiOut, response>>
  /\ UNCHANGED notOrch

\* What one model query of tryAiConsensus may come to (lines 156-177).
AiReplies ==
  {[kind |-> k, followers |-> ""] : k \in {"non-2xx", "throws", "no-json", "not-found"}}
  \cup {[kind |-> "found", followers |-> raw] : raw \in AiRawValues}

\* The value the query's promise resolves to.
AiReplyValue(reply) ==
  IF reply.kind = "found" THEN parseAiFollowers(reply.followers) ELSE NULL

\* ai.followersCount !== null && ai.confidence === 'high' &&
\* ai.followersCount > 0 && ai.followersCount < 100_000_000
AcceptAiAny(ai) == ai.followersCount # NULL
AcceptAi(ai) ==
  /\ ai.followersCount # NULL
  /\ ai.confidence = "high"
  /\ Val(ai.followersCount) > 0
  /\ Val(ai.followersCount) < 100000000

\* method = method === 'none' ? 'ai-consensus' : method + '+ai'
AiMethodShort(m) == IF m = "none" THEN "ai" ELSE m \o "+ai"
AiMethod(m) == IF m = "none" THEN "ai-consensus" ELSE m \o "+ai"

\* lines 265-274: the handler answers.
Respond(av, fc, m) ==
  /\ response' = Some(SuccessBody(av, fc, m))
  /\ pc' = "done"

\* line 255: followersCount === null && LOVABLE_API_KEY
AiWantedWithKey(fc, key) == key
AiWanted(fc, key) == fc = NULL /\ key

\* lines 253-257: the AI consensus is asked for followers only, when no count
\* was found and the key is set; the model queries start together.
AiStep ==
  /\ pc = "ai"
  /\ IF AiWanted(followersCount, lovableKey)
     THEN /\ aiPending' = Models
          /\ pc' = "aiWait"
          /\ UNCHANGED response
     ELSE /\ Respond(avatarUrl, followersCount, method)
          /\ UNCHANGED aiPending
  /\ UNCHANGED <<avatarUrl, followersCount, method, firecrawlKey, lovableKey,
                 attempts, aiResults, aiOut>>
  /\ UNCHANGED notOrch

\* lines 155-178: one model's query settles, in any order among the models.
AiModelReply(m) ==
  /\ pc = "aiWait"
  /\ m \in aiPending
  /\ \E reply \in AiReplies :
       aiResults' = [aiResults EXCEPT ![m] = AiReplyValue(reply)]
  /\ aiPending' = aiPending \ {m}
  /\ UNCHANGED <<pc, avatarUrl, followersCount, method, firecrawlKey, lovableKey,
                 attempts, aiOut, response>>
  /\ UNCHANGED notOrch

\* line 155: await Promise.all(...) resumes when no query is outstanding; each
\* query catches its own failure, so the whole never rejects.
PromiseAllFirst(pending) == pending # Models
PromiseAll(pending) == pending = {}

\* lines 180-192 and 258-274: Promise.all has every result; tryAiConsensus
\* reconciles them, the handler takes a high-confidence count and answers.
AiReconcile ==
  /\ pc = "aiWait"
  /\ PromiseAll(aiPending)
  /\ LET ai == Consensus([i \in Models |-> aiResults[i]])
         fc == IF AcceptAi(ai) THEN ai.followersCount ELSE followersCount
         m == IF AcceptAi(ai) THEN AiMethod(method) ELSE method
     IN /\ aiOut' = Some(ai)
        /\ attempts' = Append(attempts, [name |-> "ai", threw |-> FALSE,
                                         avatarUrl |-> NULL,
                                         followersCount |-> ai.followersCount])
        /\ followersCount' = fc
        /\ method' = m
        /\ Respond(avatarUrl, fc, m)
  /\ UNCHANGED <<avatarUrl, firecrawlKey, lovableKey, aiPending, aiResults>>
  /\ UNCHANGED notOrch

----------------------------------------------------------------------------
(* Profile URLs *)

\* The least index at which sub occurs in s, or 0.
IndexOf(s, sub) ==
  LET hits == {i \in 1..(Len(s) - Len(sub) + 1) : SubSeq(s, i, i + Len(sub) - 1) = sub}
  IN IF hits = {} THEN 0 ELSE CHOOSE i \in hits : \A j \in hits : i <= j

\* s.includes(sub)
Includes(s, sub) == IndexOf(s, sub) > 0

\* The longest run of characters outside stops that starts s.
TakeUntil(s, stops) ==
  LET at == {i \in 1..Len(s) : Chr(s, i) \in stops}
  IN IF at = {} THEN s ELSE SubSeq(s, 1, MinOf(at) - 1)

\* Group 1 of the match of /instagram\.com\/([^<stops>]+)/ in url, or NULL,
\* for a url that holds "instagram.com/" at most once (as every url of Urls).
PathSegment(url, stops) ==
  LET i == IndexOf(url, "instagram.com/")
      seg == TakeUntil(SubSeq(url, i + 14, Len(url)), stops)
  IN IF i > 0 /\ Len(seg) > 0 THEN Some(seg) ELSE NULL

ReservedSegments == {"p", "reel", "stories", "explore"}

\* fetch-instagram-data getInstagramUsername
dataGetInstagramUsername(url) ==
  LET m == PathSegment(url, {"/", "?", "#"})
  IN IF m # NULL /\ Val(m) \notin ReservedSegments THEN m ELSE NULL

\* DynamicPage isInstagramUrl
isInstagramUrl(url) ==
  url # NULL /\ Val(url) # "" /\ (Includes(Val(url), "instagram.com") \/ Includes(Val(url), "instagr.am"))

\* The url of a request or of an item.
Urls == {"", "https://www.instagram.com/nasa/", "https://www.instagram.com/p/Cabc/",
         "https://example.com/nasa", "https://instagr.am/nasa"}

----------------------------------------------------------------------------
(* fetch-instagram-data: the cascade that returns the first count found *)

\* The Response of fetch-instagram-data on a count found by a network method:
\* followersCount: n.toString()
FoundBody(n, m) ==
  [success |-> TRUE, followersCount |-> Some(NumToStr(n)), method |-> m]

\* The followers field of the AI reply of fetch-instagram-data, as
\* String(parsed.followers); "" stands for every falsy value.
DataAiRawValues == {"", "11.1K", "11100", "11,100", "9094", "1.5M", "11.5", "abc"}

\* s.endsWith(t)
EndsWith(s, t) == Len(s) >= Len(t) /\ SubSeq(s, Len(s) - Len(t) + 1, Len(s)) = t

\* lines 282-284
isEstimate(rawFollowers) ==
  \/ Len(rawFollowers) >= 1 /\ Chr(rawFollowers, Len(rawFollowers)) \in SuffixLetters
  \/ Len(rawFollowers) > 3 /\ EndsWith(rawFollowers, "00")

\* lines 287-298
AiSearchBody(rawFollowers) ==
  [success |-> TRUE, followersCount |-> Some(rawFollowers), method |-> "ai-search",
   isEstimate |-> isEstimate(rawFollowers)]

\* lines 313-321
ExhaustedBody ==
  [success |-> FALSE, status |-> 200, error |-> "all methods failed",
   triedMethods |-> <<"firecrawl", "profile-html", "web-api", "mobile-api", "ai-search">>]

\* What a field of a JSON reply may hold: nothing (undefined), null or a number.
JsonFields ==
  {[t |-> "undefined", n |-> 0], [t |-> "null", n |-> 0]}
  \cup {[t |-> "number", n |-> k] : k \in NetCounts}

Truthy(f) == f.t = "number" /\ f.n # 0

\* What a scrape or page fetch may come to: an exception, a non-2xx status,
\* or a page in which the extraction finds a count (value) or finds none.
PageOutcomes(kinds) ==
  {[kind |-> k, value |-> 0] : k \in {"throws", "non-2xx", "nothing"}}
  \cup {[kind |-> k, value |-> n] : k \in kinds, n \in NetCounts}

\* What an action of the other handlers leaves alone.
dataUnchanged == <<firecrawlKey, lovableKey, orchLocals, call, clientVars, pageVars>>

\* A method issued its request; kind tells how the attempt ended: "found"
\* (for a page, "html" or "markdown": where the count was found) or a failure.
Tried(name, kind) == tried' = Append(tried, [name |-> name, kind |-> kind])

\* lines 63-82
DataStart ==
  /\ pc = "d-start"
  /\ IF req.malformed THEN /\ response' = Some(ErrorBody(200, "Unexpected token"))
                           /\ pc' = "done"
     ELSE IF req.url = "" THEN /\ response' = Some(ErrorBody(200, "URL is required"))
                               /\ pc' = "done"
     ELSE IF dataGetInstagramUsername(req.url) = NULL
          THEN /\ response' = Some(ErrorBody(200, "no username in URL"))
               /\ pc' = "done"
     ELSE /\ pc' = "d-firecrawl"
          /\ UNCHANGED response
  /\ UNCHANGED <<dataUnchanged, tried, req, store, writes, extracted>>

\* lines 84-149: Method 1.  The scraped HTML holds an embedded count
\* (extractFollowersFromProfileHtml) or the markdown a count that
\* parseFollowerCount reads, or neither.
DataFirecrawl ==
  /\ pc = "d-firecrawl"
  /\ IF ~firecrawlKey
     THEN pc' = "d-html" /\ UNCHANGED <<response, tried>>
     ELSE \E o \in PageOutcomes({"html", "markdown"}) :
            /\ Tried("firecrawl", o.kind)
            /\ IF o.kind \in {"throws", "non-2xx", "nothing"}
               THEN pc' = "d-html" /\ UNCHANGED response
               ELSE /\ response' = Some(FoundBody(o.value, IF o.kind = "html"
                                                           THEN "firecrawl-html"
                                                           ELSE "firecrawl-markdown"))
                    /\ pc' = "done"
  /\ UNCHANGED <<dataUnchanged, req, store, writes, extracted>>

\* lines 151-180: Method 2
DataHtml ==
  /\ pc = "d-html"
  /\ \E o \in PageOutcomes({"html"}) :
       /\ Tried("profile-html", o.kind)
       /\ IF o.kind \in {"throws", "non-2xx", "nothing"}
          THEN pc' = "d-webapi" /\ UNCHANGED response
          ELSE /\ response' = Some(FoundBody(o.value, "profile-html"))
               /\ pc' = "done"
  /\ UNCHANGED <<dataUnchanged, req, store, writes, extracted>>

\* What a JSON endpoint may come to: an exception, a non-2xx status, or a
\* body with user.edge_followed_by.count and user.follower_count.
ApiOutcomes ==
  {[kind |-> k, count |-> f, alt |-> f] :
     k \in {"throws", "non-2xx"}, f \in {[t |-> "undefined", n |-> 0]}}
  \cup {[kind |-> "ok", count |-> c, alt |-> a] : c \in JsonFields, a \in JsonFields}

\* lines 193-207 and 223-238: followerCount !== undefined, then
\* followerCount.toString(), which throws on null into the method's catch.
ApiFound(followerCount) == followerCount.t = "number"

\* lines 182-211: Method 3
DataWebApi ==
  /\ pc = "d-webapi"
  /\ \E o \in ApiOutcomes :
       /\ Tried("web-api", IF o.kind # "ok" THEN o.kind
                               ELSE IF ApiFound(o.count) THEN "found" ELSE "nothing")
       /\ IF o.kind = "ok" /\ ApiFound(o.count)
          THEN /\ response' = Some(FoundBody(o.count.n, "web-api"))
               /\ pc' = "done"
          ELSE pc' = "d-mobile" /\ UNCHANGED response
  /\ UNCHANGED <<dataUnchanged, req, store, writes, extracted>>

\* lines 213-242: Method 4; edge_followed_by.count || user.follower_count
DataMobileApi ==
  /\ pc = "d-mobile"
  /\ \E o \in ApiOutcomes :
       LET followerCount == IF Truthy(o.count) THEN o.count ELSE o.alt
       IN /\ Tried("mobile-api", IF o.kind # "ok" THEN o.kind
                                  ELSE IF ApiFound(followerCount) THEN "found"
                                  ELSE "nothing")
          /\ IF o.kind = "ok" /\ ApiFound(followerCount)
             THEN /\ response' = Some(FoundBody(followerCount.n, "mobile-api"))
                  /\ pc' = "done"
             ELSE pc' = "d-ai" /\ UNCHANGED response
  /\ UNCHANGED <<dataUnchanged, req, store, writes, extracted>>

\* What the AI query of Method 5 may come to.
DataAiOutcomes ==
  {[kind |-> k, followers |-> ""] :
     k \in {"throws", "non-2xx", "no-json", "bad-json", "not-found"}}
  \cup {[kind |-> "found", followers |-> raw] : raw \in DataAiRawValues}

\* lines 244-321: Method 5, one AI model asked once, and the answer when
\* every method failed.
DataAi ==
  /\ pc = "d-ai"
  /\ IF ~lovableKey
     THEN response' = Some(ExhaustedBody) /\ UNCHANGED tried
     ELSE \E o \in DataAiOutcomes :
            /\ Tried("ai-search", IF o.kind = "found" /\ o.followers = ""
                                 THEN "not-found" ELSE o.kind)
            /\ IF o.kind = "found" /\ o.followers # ""
               THEN response' = Some(AiSearchBody(o.followers))
               ELSE response' = Some(ExhaustedBody)
  /\ pc' = "done"
  /\ UNCHANGED <<dataUnchanged, req, store, writes, extracted>>

----------------------------------------------------------------------------
(* Number.prototype.toFixed(1) and fetch-instagram-info formatFollowerCount *)

RECURSIVE BitLen(_)
BitLen(n) == IF n < 2 THEN 1 ELSE 1 + BitLen(n \div 2)

\* The remainder of the binary long division of r / den after steps bits.
RECURSIVE RemAfter(_, _, _)
RemAfter(r, den, steps) ==
  IF steps = 0 \/ r = 0 THEN r ELSE RemAfter((2 * r) % den, den, steps - 1)

\* The double nearest num / den (>= 1) is not below num / den.  The quotient
\* has BitLen(num \div den) integer bits, so the 53-bit significand ends after
\* 53 - BitLen fraction bits: what follows it decides the rounding.
DoubleNotBelow(num, den) ==
  LET L == BitLen(num \div den)
      r53 == RemAfter(num % den, den, 53 - L)
      r52 == RemAfter(num % den, den, 52 - L)
  IN \/ r53 = 0
     \/ 2 * r53 > den
     \/ 2 * r53 = den /\ 2 * r52 >= den

\* (num / den).toFixed(1), num / den >= 1: the n for which n / 10 is nearest
\* the double, the larger n of two equally near.
toFixed1(num, den) ==
  LET q == (10 * num) \div den
      r == (10 * num) % den
      n == IF 2 * r < den THEN q
           ELSE IF 2 * r > den THEN q + 1
           ELSE IF DoubleNotBelow(num, den) THEN q + 1 ELSE q
  IN NumToStr(n \div 10) \o "." \o DigitChr(n % 10)

\* s.replace(/\.0$/, "")
StripPointZero(s) == IF EndsWith(s, ".0") THEN SubSeq(s, 1, Len(s) - 2) ELSE s

\* fetch-instagram-info formatFollowerCount
formatFollowerCount(count) ==
  IF count >= 1000000 THEN StripPointZero(toFixed1(count, 1000000)) \o "M"
  ELSE IF count >= 1000 THEN StripPointZero(toFixed1(count, 1000)) \o "K"
  ELSE NumToStr(count)

----------------------------------------------------------------------------
(* Text patterns of the persisting handlers.  A page text is "<tok> <word>"  *)
(* with tok free of white space, so a pattern (number)\s*word matches with   *)
(* its number ending tok, at the leftmost start from which the number        *)
(* pattern reaches the end of tok.                                           *)

WithoutSuffixLetter(s) ==
  IF Len(s) >= 1 /\ Chr(s, Len(s)) \in SuffixLetters THEN SubSeq(s, 1, Len(s) - 1) ELSE s

\* ^\d+(?:[.,]\d+)?(?:[KMkm])?$
IsShortNumber(s) ==
  LET b == WithoutSuffixLetter(s)
  IN \/ IsPureDigits(b)
     \/ \E k \in 2..(Len(b) - 1) :
          /\ Chr(b, k) \in {".", ","}
          /\ IsPureDigits(SubSeq(b, 1, k - 1))
          /\ IsPureDigits(SubSeq(b, k + 1, Len(b)))

\* ^\d[\d,.]*[KkMm]?$
IsLooseNumber(s) ==
  LET b == WithoutSuffixLetter(s)
  IN Len(b) >= 1 /\ Chr(b, 1) \in Digits /\ AllIn(b, Digits \cup {",", "."})

\* ^\d{1,3}(?:,\d{3})*$
RECURSIVE IsGrouped(_)
IsGrouped(s) ==
  \/ Len(s) \in 1..3 /\ AllIn(s, Digits)
  \/ /\ Len(s) >= 5
     /\ Chr(s, Len(s) - 3) = ","
     /\ AllIn(SubSeq(s, Len(s) - 2, Len(s)), Digits)
     /\ IsGrouped(SubSeq(s, 1, Len(s) - 4))

\* ^\d{1,3}(?:,\d{3})*(?:\.\d+)?[KMkm]?$
IsGroupedNumber(s) ==
  LET b == WithoutSuffixLetter(s)
      d == IndexOf(b, ".")
  IN IF d = 0 THEN IsGrouped(b)
     ELSE IsGrouped(SubSeq(b, 1, d - 1)) /\ IsPureDigits(SubSeq(b, d + 1, Len(b)))

\* s matches the number pattern named by pattern.
MatchesPattern(pattern, s) ==
  CASE pattern = "short" -> IsShortNumber(s)
    [] pattern = "loose" -> IsLooseNumber(s)
    [] pattern = "grouped" -> IsGroupedNumber(s)

\* Group 1 of the leftmost match: the longest end of tok that the pattern
\* accepts.
LeftmostEnd(tok, pattern) ==
  LET starts == {i \in 1..Len(tok) : MatchesPattern(pattern, SubSeq(tok, i, Len(tok)))}
  IN IF starts = {} THEN NULL
     ELSE Some(SubSeq(tok, CHOOSE i \in starts : \A j \in starts : i <= j, Len(tok)))

\* The number tokens a page may show before its word.
PageTokens == {"11.1K", "9,094", "11100", "1,234,567", "abc"}

\* The pages: the word after the token ("none": no such text), and the count
\* embedded as "edge_followed_by":{"count":N}, if any.
PageTexts ==
  [word : {"followers", "follower", "fensi", "none"}, tok : PageTokens,
   embedded : {NULL} \cup {Some(NumToStr(n)) : n \in NetCounts}]

\* The page of a fetch that brought none.
NoPage == [word |-> "none", tok |-> "abc", embedded |-> NULL]

----------------------------------------------------------------------------
(* fetch-instagram-data, the Firecrawl handler that persists what it finds *)

\* lines 412-443: the four patterns, tried until one yields a string.
ExtractFollowersText(page) ==
  LET p1 == IF page.word = "followers" THEN LeftmostEnd(page.tok, "short") ELSE NULL
      p2 == IF page.word = "fensi" THEN LeftmostEnd(page.tok, "short") ELSE NULL
      p3 == page.embedded
      p4 == IF page.word # "none" THEN LeftmostEnd(page.tok, "grouped") ELSE NULL
  IN IF p1 # NULL THEN p1 ELSE IF p2 # NULL THEN p2 ELSE IF p3 # NULL THEN p3 ELSE p4

\* lines 465-472
ScrapeBody(fc) == [success |-> TRUE, followersCount |-> fc]

\* .update({ followers_count: value }).eq('id', itemId): the update is issued;
\* the datastore applies it unless it answers with an error.
IssueUpdate(by, value, ok) ==
  /\ writes' = Append(writes, [by |-> by, value |-> value])
  /\ store' = IF ok THEN Some(value) ELSE store

\* lines 346-371
ScrapeStart ==
  /\ pc = "f-start"
  /\ LET err == IF req.malformed THEN Some(ErrorBody(500, "Unexpected token"))
                ELSE IF req.url = "" THEN Some(ErrorBody(400, "URL is required"))
                ELSE IF ~Includes(req.url, "instagram.com")
                     THEN Some(ErrorBody(400, "Not an Instagram URL"))
                ELSE IF ~firecrawlKey
                     THEN Some(ErrorBody(500, "Firecrawl connector not configured"))
                ELSE NULL
     IN /\ response' = err
        /\ pc' = IF err = NULL THEN "f-scrape" ELSE "done"
  /\ UNCHANGED <<dataUnchanged, tried, req, store, writes, extracted>>

\* lines 373-445 and 465-472: the scrape, and the answer when nothing is to
\* be persisted.
ScrapeFetch ==
  /\ pc = "f-scrape"
  /\ \E o \in {[kind |-> k, page |-> NoPage] : k \in {"throws", "bad-json", "non-2xx"}}
              \cup {[kind |-> "ok", page |-> pg] : pg \in PageTexts} :
       IF o.kind # "ok"
       THEN /\ response' = Some(ErrorBody(500, "Firecrawl request failed"))
            /\ pc' = "done"
            /\ UNCHANGED extracted
       ELSE LET fc == ExtractFollowersText(o.page)
            IN /\ extracted' = fc
               /\ IF req.itemId /\ fc # NULL
                  THEN pc' = "f-update" /\ UNCHANGED response
                  ELSE pc' = "done" /\ response' = Some(ScrapeBody(fc))
  /\ UNCHANGED <<dataUnchanged, tried, req, store, writes>>

\* lines 447-472
ScrapeUpdate ==
  /\ pc = "f-update"
  /\ \E ok \in BOOLEAN : IssueUpdate("fetch-instagram-data", Val(extracted), ok)
  /\ response' = Some(ScrapeBody(extracted))
  /\ pc' = "done"
  /\ UNCHANGED <<dataUnchanged, tried, req, extracted>>

----------------------------------------------------------------------------
(* fetch-instagram-info *)

\* The error Responses of fetch-instagram-info carry no success field.
InfoErrorBody(status, msg) == [status |-> status, error |-> msg]

\* url.match(/instagram\.com\/([^/?]+)/)
infoUsernameMatch(url) == PathSegment(url, {"/", "?"})

\* lines 13-33
InfoStart ==
  /\ pc = "i-start"
  /\ LET err == IF req.malformed THEN Some(InfoErrorBody(500, "Unexpected token"))
                ELSE IF req.url = "" \/ ~req.itemId
                     THEN Some(InfoErrorBody(400, "Missing url or itemId"))
                ELSE IF infoUsernameMatch(req.url) = NULL
                     THEN Some(InfoErrorBody(400, "Invalid Instagram URL"))
                ELSE NULL
     IN /\ response' = err
        /\ pc' = IF err = NULL THEN "i-api" ELSE "done"
  /\ UNCHANGED <<dataUnchanged, tried, req, store, writes, extracted>>

\* lines 35-59
InfoApi ==
  /\ pc = "i-api"
  /\ \E o \in ApiOutcomes :
       /\ extracted' = IF o.kind = "ok" /\ Truthy(o.count)
                       THEN Some(formatFollowerCount(o.count.n)) ELSE NULL
       /\ pc' = IF extracted' = NULL THEN "i-page" ELSE "i-update"
  /\ UNCHANGED <<dataUnchanged, tried, req, store, writes, response>>

\* lines 72-81: the text pattern first, then the embedded count
InfoExtract(page) ==
  LET m == IF page.word = "followers" THEN LeftmostEnd(page.tok, "loose") ELSE NULL
  IN IF m # NULL THEN m
     ELSE IF page.embedded # NULL
          THEN Some(formatFollowerCount(DigitsToNum(Val(page.embedded))))
     ELSE NULL

\* lines 59-86
InfoPage ==
  /\ pc = "i-page"
  /\ \E o \in {[kind |-> k, page |-> NoPage] : k \in {"throws", "non-2xx"}}
              \cup {[kind |-> "ok", page |-> pg] : pg \in PageTexts} :
       extracted' = IF o.kind = "ok" THEN InfoExtract(o.page) ELSE NULL
  /\ pc' = "i-update"
  /\ UNCHANGED <<dataUnchanged, tried, req, store, writes, response>>

\* lines 88-111
InfoUpdate ==
  /\ pc = "i-update"
  /\ IF extracted # NULL
     THEN \E ok \in BOOLEAN : IssueUpdate("fetch-instagram-info", Val(extracted), ok)
     ELSE UNCHANGED <<store, writes>>
  /\ response' = Some([success |-> TRUE, followers_count |-> extracted])
  /\ pc' = "done"
  /\ UNCHANGED <<dataUnchanged, tried, req, extracted>>

----------------------------------------------------------------------------
(* DynamicPage.fetchInstagramFollowers: the client and its Persistence Gate *)

\* The HTTP status of a Response (200 unless the handler set one).
StatusOf(r) == IF "status" \in DOMAIN r THEN r.status ELSE 200

\* data.followersCount, null when the body has none
BodyFollowers(r) == IF "followersCount" \in DOMAIN r THEN r.followersCount ELSE NULL

\* lines 327-341: the gate on raw = String(data.followersCount).trim()
\* /^([\d.,]+)\s*([KkMm])$/
looksLikeEstimateSuffix(raw) == SuffixMatch(raw, Digits \cup {".", ","}) # NULL
\* /^\d[\d,]*$/
looksLikeNumberLoose(raw) == Len(raw) >= 1 /\ Chr(raw, 1) \in Digits
looksLikeNumber(raw) == LooksLikeNumber(raw)

Toast(level, text) == toasts' = Append(toasts, [level |-> level, text |-> text])

edgeUnchanged == <<firecrawlKey, lovableKey, orchLocals, tried, extracted, call, pageVars>>

\* lines 303-310: the edge function is invoked with the item's url and id;
\* either handler of fetch-instagram-data may be the one deployed.
ClientInvoke ==
  /\ cpc = "start"
  /\ IF ~isInstagramUrl(item.url)
     THEN cpc' = "done" /\ UNCHANGED <<pc, req>>
     ELSE /\ cpc' = "invoking"
          /\ req' = [url |-> Val(item.url), itemId |-> TRUE, malformed |-> FALSE]
          /\ pc' \in {"d-start", "f-start"}
  /\ UNCHANGED <<edgeUnchanged, response, store, writes, item, localCount, toasts>>

\* lines 312-345: invoke resolves, with an error when the call failed or the
\* status is no 2xx; the gate decides whether an update is issued.
ClientReceive ==
  /\ cpc = "invoking"
  /\ pc = "done"
  /\ \E lost \in BOOLEAN :
       LET data == Val(response)
           raw == Trim(Val(BodyFollowers(data)))
       IN IF lost \/ StatusOf(data) # 200
          THEN cpc' = "done" /\ Toast("error", "invoke-error")
          ELSE IF ~data.success
          THEN cpc' = "done" /\ Toast("error", "no-success")
          ELSE IF BodyFollowers(data) = NULL \/ Val(BodyFollowers(data)) = ""
          THEN cpc' = "done" /\ Toast("error", "no-count")
          ELSE IF looksLikeEstimateSuffix(raw)
          THEN cpc' = "done" /\ Toast("error", "estimate-use-manual-entry")
          ELSE IF ~looksLikeNumber(raw)
          THEN cpc' = "done" /\ Toast("error", "bad-format")
          ELSE cpc' = "updating" /\ UNCHANGED toasts
  /\ UNCHANGED <<edgeUnchanged, pc, req, response, store, writes, item, localCount>>

\* lines 343-369: the update, the local state and the toast
ClientUpdate ==
  /\ cpc = "updating"
  /\ LET data == Val(response)
         normalized == RemoveCommas(Trim(Val(BodyFollowers(data))))
     IN \E ok \in BOOLEAN :
          /\ IssueUpdate("client", normalized, ok)
          /\ IF ok
             THEN /\ localCount' = Some(normalized)
                  /\ Toast(IF "isEstimate" \in DOMAIN data /\ data.isEstimate
                           THEN "warning" ELSE "success", "count")
             ELSE /\ Toast("error", "update-error")
                  /\ UNCHANGED localCount
  /\ cpc' = "done"
  /\ UNCHANGED <<edgeUnchanged, pc, req, response, item>>

----------------------------------------------------------------------------
(* fetch-instagram-avatar: the cascade that returns the first avatar found *)

\* What a method of fetch-instagram-avatar may come to: an exception, a
\* non-2xx status, a reply without an avatar URL, or one with it.
AvatarOutcomes(name) ==
  {[kind |-> k, avatarUrl |-> NULL] : k \in {"throws", "non-2xx", "nothing"}}
  \cup {[kind |-> "found", avatarUrl |-> Some(UrlOf(name))]}

AvatarFoundBody(url, m) == [success |-> TRUE, avatarUrl |-> url, method |-> m]

avatarUnchanged == <<dataUnchanged, tried, req, store, writes, extracted>>

\* lines 45-56
AvatarStart ==
  /\ pc = "v-start"
  /\ \E body \in {"username", "empty", "malformed"} :
       /\ pc' = IF body = "username" THEN "v-webapi" ELSE "done"
       /\ response' = CASE body = "username" -> NULL
                        [] body = "empty" -> Some(ErrorBody(200, "Username is required"))
                        [] body = "malformed" -> Some(ErrorBody(200, "Unexpected token"))
  /\ UNCHANGED avatarUnchanged

\* A method of lines 58-159: the first avatar URL found is the answer.
AvatarMethod(at, name, next) ==
  /\ pc = at
  /\ \E o \in AvatarOutcomes(name) :
       IF o.kind = "found"
       THEN response' = Some(AvatarFoundBody(o.avatarUrl, name)) /\ pc' = "done"
       ELSE UNCHANGED response /\ pc' = next
  /\ UNCHANGED avatarUnchanged

\* lines 58-88: Method 1
AvatarWebApi == AvatarMethod("v-webapi", "web-api", "v-html")

\* lines 90-120: Method 2
AvatarHtml == AvatarMethod("v-html", "mobile-html", "v-firecrawl")

\* lines 122-159: Method 3
AvatarFirecrawl ==
  \/ AvatarMethod("v-firecrawl", "firecrawl", "v-ai") /\ firecrawlKey
  \/ /\ pc = "v-firecrawl" /\ ~firecrawlKey
     /\ pc' = "v-ai"
     /\ UNCHANGED <<response, avatarUnchanged>>

\* What the AI query of Method 4 may come to.  "aborted": no reply within
\* 5000 ms, controller.abort() makes fetch reject; "not-http": an avatarUrl
\* that does not start with "http".
AvatarAiOutcomes ==
  {[kind |-> k, avatarUrl |-> NULL] :
     k \in {"throws", "aborted", "non-2xx", "no-json", "bad-json", "not-found",
            "not-http"}}
  \cup {[kind |-> "found", avatarUrl |-> Some(UrlOf("ai-search"))]}

\* lines 161-233: Method 4, and the answer when every method failed.
AvatarAi ==
  /\ pc = "v-ai"
  /\ IF ~lovableKey
     THEN response' = Some(ErrorBody(200, "no avatar"))
     ELSE \E o \in AvatarAiOutcomes :
            response' = IF o.kind = "found"
                        THEN Some(AvatarFoundBody(o.avatarUrl, "ai-search"))
                        ELSE Some(ErrorBody(200, "no avatar"))
  /\ pc' = "done"
  /\ UNCHANGED avatarUnchanged

----------------------------------------------------------------------------
(* extract-followers-from-image and DynamicPage.extractFollowersFromImage *)

\* s without its leading zeros ("0" for a string of zeros).
StripLeadingZeros(s) ==
  LET at == {i \in 1..Len(s) : Chr(s, i) # "0"}
  IN IF at = {} THEN SubSeq(s, 1, 1) ELSE SubSeq(s, MinOf(at), Len(s))

\* s without its trailing zeros.
StripTrailingZeros(s) ==
  LET at == {i \in 1..Len(s) : Chr(s, i) # "0"}
  IN IF at = {} THEN SubSeq(s, 1, 1) ELSE SubSeq(s, 1, MaxOf(at))

\* Number(digits) for a string of digits of any length, held as its decimal
\* digits without leading zeros.  The double is that very integer when it
\* has at most 15 significant digits, as all the inputs of this model have.
BigNumber(digits) == StripLeadingZeros(digits)

\* String(n) for such a number: the digits below 10^21, and from 10^21 on
\* the exponent form, "1e+21", "1.2e+21".
BigNumberToString(n) ==
  IF Len(n) <= 21 THEN n
  ELSE LET m == StripTrailingZeros(n)
       IN Chr(m, 1) \o (IF Len(m) > 1 THEN "." \o SubSeq(m, 2, Len(m)) ELSE "")
          \o "e+" \o NumToStr(Len(n) - 1)

\* lines 16-24: the number, or NULL
parseFollowersToInt(value) ==
  LET raw == Trim(value)
  IN IF LooksLikeNumber(raw) THEN Some(BigNumber(RemoveCommas(raw))) ELSE NULL

\* The followers field of the model's reply, as String(parsed.followers).
OcrRawValues == {"0", "007", "9094", " 9094", "11,100", "11.1K", "1.5M", "12abc", "abc",
                 "1000000000000000000000"}

\* What the one AI query may come to.
OcrAiOutcomes ==
  {[kind |-> k, followers |-> ""] :
     k \in {"throws", "429", "402", "non-2xx", "no-json", "bad-json", "not-found"}}
  \cup {[kind |-> "found", followers |-> raw] : raw \in OcrRawValues}

OcrBody(followers) ==
  [success |-> TRUE, followersCount |-> Some(BigNumberToString(followers)),
   method |-> "image-ocr"]

ocrUnchanged == <<dataUnchanged, tried, req, store, writes, extracted>>

\* lines 31-46: the request body and the key.  The client always sends an
\* imageBase64.
OcrStart ==
  /\ pc = "o-start"
  /\ \E body \in IF cpc = "ocr-invoking" THEN {"image"}
                  ELSE {"image", "empty", "malformed"} :
       LET err == CASE body = "malformed" -> Some(ErrorBody(500, "Unexpected token"))
                    [] body = "empty" -> Some(ErrorBody(400, "imageBase64 is required"))
                    [] ~lovableKey -> Some(ErrorBody(500, "AI not configured"))
                    [] OTHER -> NULL
       IN /\ response' = err
          /\ pc' = IF err = NULL THEN "o-ai" ELSE "done"
  /\ UNCHANGED ocrUnchanged

\* lines 53-135
OcrAi ==
  /\ pc = "o-ai"
  /\ \E o \in OcrAiOutcomes :
       response' =
         CASE o.kind = "throws" -> Some(ErrorBody(500, "fetch failed"))
           [] o.kind = "429" -> Some(ErrorBody(429, "too many requests"))
           [] o.kind = "402" -> Some(ErrorBody(402, "payment required"))
           [] o.kind = "non-2xx" -> Some(ErrorBody(500, "AI service error"))
           [] o.kind \in {"no-json", "bad-json", "not-found"} ->
                Some(ErrorBody(200, "not recognised"))
           [] o.kind = "found" ->
                IF parseFollowersToInt(o.followers) = NULL
                THEN Some(ErrorBody(200, "bad format"))
                ELSE Some(OcrBody(Val(parseFollowersToInt(o.followers))))
  /\ pc' = "done"
  /\ UNCHANGED ocrUnchanged

\* part_005 lines 103-111: the file is read and the function invoked
OcrClientInvoke ==
  /\ cpc = "ocr-start"
  /\ \E read \in BOOLEAN :
       IF read
       THEN cpc' = "ocr-invoking" /\ pc' = "o-start" /\ UNCHANGED toasts
       ELSE cpc' = "done" /\ Toast("error", "read-error") /\ UNCHANGED pc
  /\ UNCHANGED <<edgeUnchanged, req, response, store, writes, item, localCount>>

\* /^\d+$/
ocrLooksLikeNumber(raw) == IsPureDigits(raw)

\* part_005 lines 112-126
OcrClientReceive ==
  /\ cpc = "ocr-invoking"
  /\ pc = "done"
  /\ \E lost \in BOOLEAN :
       LET data == Val(response)
           raw == Trim(Val(BodyFollowers(data)))
       IN IF lost \/ StatusOf(data) # 200
          THEN cpc' = "done" /\ Toast("error", "invoke-error")
          ELSE IF ~data.success \/ BodyFollowers(data) = NULL
                  \/ Val(BodyFollowers(data)) = ""
          THEN cpc' = "done" /\ Toast("error", "not-recognised")
          ELSE IF ~ocrLooksLikeNumber(raw)
          THEN cpc' = "done" /\ Toast("error", "bad-format")
          ELSE cpc' = "ocr-updating" /\ UNCHANGED toasts
  /\ UNCHANGED <<edgeUnchanged, pc, req, response, store, writes, item, localCount>>

\* part_005 lines 128-141
OcrClientUpdate ==
  /\ cpc = "ocr-updating"
  /\ LET raw == Trim(Val(BodyFollowers(Val(response))))
     IN \E ok \in BOOLEAN :
          /\ IssueUpdate("client-ocr", raw, ok)
          /\ IF ok
             THEN localCount' = Some(raw) /\ Toast("success", "count")
             ELSE UNCHANGED localCount /\ Toast("error", "update-error")
  /\ cpc' = "done"
  /\ UNCHANGED <<edgeUnchanged, pc, req, response, item>>

----------------------------------------------------------------------------
(* DynamicPage.formatFollowers, and single calls of the pure functions *)

\* parseInt(s, 10): the decimal digits s begins with after its white space,
\* or NULL for NaN.  No input of this model carries a sign.
DigitPrefix(s) == TakeUntil(s, {SubSeq(s, i, i) : i \in 1..Len(s)} \ Digits)

parseInt(s) ==
  LET d == DigitPrefix(Trim(s))
  IN IF d = "" THEN NULL ELSE Some(DigitsToNum(d))

\* n.toLocaleString('en-US') for an integer 0 <= n < 1,000,000
toLocaleString(n) ==
  IF n < 1000 THEN NumToStr(n)
  ELSE NumToStr(n \div 1000) \o ","
       \o DigitChr((n % 1000) \div 100) \o DigitChr((n % 100) \div 10) \o DigitChr(n % 10)

toUpperCase(c) == CASE c = "k" -> "K" [] c = "m" -> "M" [] OTHER -> c

\* part_005 lines 55-76; count is a string, NULL for null
formatFollowers(count) ==
  IF count = NULL \/ Val(count) = "" THEN ""
  ELSE LET formattedMatch == SuffixMatch(Val(count), Digits \cup {".", ","})
           num == parseInt(RemoveCommas(Val(count)))
       IN IF formattedMatch # NULL
          THEN Val(formattedMatch).num \o toUpperCase(Val(formattedMatch).suffix)
          ELSE IF num = NULL THEN Val(count)
          ELSE IF Val(num) < 10000 THEN toLocaleString(Val(num))
          ELSE IF Val(num) >= 1000000 THEN toFixed1(Val(num), 1000000) \o "M"
          ELSE toFixed1(Val(num), 1000) \o "K"

\* The integers whose plain digit rendering is parsed and formatted.
SampleCounts ==
  {0, 1, 9, 10, 99, 100, 999, 1000, 9094, 9999, 10000, 15000, 15500, 99999, 100000,
   999949, 999950, 999999, 1000000, 1500000, 9999999}

\* The strings parseAiFollowers is called with.
ParseInputs ==
  {NumToStr(n) : n \in SampleCounts}
  \cup {"", " ", "abc", "007", "9,094", "1,2,3", ",123", "123,", "12 34", " 1500 ",
        "15K", "15k", "1.5M", "1.5m", "1.5 K", "1.5  M", "11.1K", "0.5K", ".5K", "1.K",
        "1.2345K", "1.4995K", "1.2.3K", ".K", "K", "..K", "1.5G", "1.5KK", "K15",
        "-5", "+5", "1e3", "11.5", "1,5K", "15 000"}

\* The counts formatFollowers is called with.
FormatInputs ==
  {NULL}
  \cup {Some(NumToStr(n)) : n \in SampleCounts}
  \cup {Some(str) : str \in {"", "007", "9,094", "1,500,000", "15K", "1.5m", "1.5 k",
                             "11.1K", "abc", "12abc"}}

Calls ==
  {[fn |-> "parseAiFollowers", arg |-> Some(v), out |-> NULL] : v \in ParseInputs}
  \cup {[fn |-> "formatFollowers", arg |-> c, out |-> NULL] : c \in FormatInputs}

callUnchanged ==
  <<req, response, firecrawlKey, lovableKey, orchLocals, tried, extracted, store, writes,
    clientVars, pageVars>>

\* auto-fetch-instagram lines 54-69, called once
ParseCall ==
  /\ pc = "call"
  /\ Val(call).fn = "parseAiFollowers"
  /\ call' = Some([Val(call) EXCEPT !.out = Some(parseAiFollowers(Val(Val(call).arg)))])
  /\ pc' = "done"
  /\ UNCHANGED callUnchanged

\* part_005 lines 55-76, called once
FormatCall ==
  /\ pc = "call"
  /\ Val(call).fn = "formatFollowers"
  /\ call' = Some([Val(call) EXCEPT !.out = Some(formatFollowers(Val(call).arg))])
  /\ pc' = "done"
  /\ UNCHANGED callUnchanged

----------------------------------------------------------------------------
(* InstagramAvatar: the component, its effect and the shared avatar cache   *)

\* The handles the components are given; "" is a missing username.
Handles == {"u1", "u2"}

\* The instances of the component on the page.
Comps == {1, 2}

\* The changes of a username prop on the page.
MaxChanges == 1

\* The effects of one instance: the one of the mount and one after each
\* change of its username prop.
MaxEffects == MaxChanges + 1

\* line 80: an entry is undefined until a fetch wrote it, then a URL or null.
EmptyCache == [u \in Handles |-> "undefined"]

\* lines 88-90: useState(null), useState(true), useState(false)
Unmounted ==
  [mounted |-> FALSE, username |-> "", avatarUrl |-> "", isLoading |-> TRUE,
   hasFailed |-> FALSE, effect |-> 0]

NoRun == [at |-> "none", username |-> "", cancelled |-> FALSE, result |-> ""]

\* lines 139-141: clientSources
ClientSource(u) == "unavatar.io/instagram/" \o u

\* line 184: data.avatarUrl of fetch-instagram-avatar
EdgeAvatar(u) == "cdn.instagram/" \o u

\* lines 144, 157, 170, 180, 196: the mutant takes every run for a live one.
NotCancelledAlways(run) == TRUE
NotCancelled(run) == ~run.cancelled

\* lines 111-129: the part of the effect before fetchAvatar, on the state cmp
EffectSync(cmp, u) ==
  IF u = ""
    THEN [cmp EXCEPT !.isLoading = FALSE, !.hasFailed = TRUE]
    ELSE IF avatarCache[u] # "undefined"
      THEN IF avatarCache[u] # "null"
        THEN [cmp EXCEPT !.avatarUrl = avatarCache[u], !.isLoading = FALSE]
        ELSE [cmp EXCEPT !.hasFailed = TRUE, !.isLoading = FALSE]
      ELSE cmp

\* lines 131-205: fetchAvatar() is called when the cache has no entry.
EffectRun(u) ==
  IF u # "" /\ avatarCache[u] = "undefined"
    THEN [at |-> "image", username |-> u, cancelled |-> FALSE, result |-> ""]
    ELSE NoRun

\* lines 207-210: the cleanup, when the effect returned one
Cleanup(run) == IF run.at = "none" THEN run ELSE [run EXCEPT !.cancelled = TRUE]

\* lines 231-258: what the component renders
Rendered(cmp) ==
  IF cmp.username = "" \/ cmp.hasFailed THEN "fallback"
  ELSE IF cmp.avatarUrl # "" THEN cmp.avatarUrl
  ELSE "spinner"

componentUnchanged ==
  <<pc, req, response, firecrawlKey, lovableKey, orchLocals, tried, extracted, call,
    store, writes, clientVars, mappings, batch, notes, syncs>>

\* lines 87-129: the component mounts and its effect runs; the instances
\* are numbered in the order of their mounts
Mount(c, u) ==
  /\ pc = "page"
  /\ ~comps[c].mounted
  /\ comps[c].effect = 0
  /\ \A b \in Comps : b < c => comps[b].effect > 0
  /\ comps' = [comps EXCEPT ![c] =
       EffectSync([Unmounted EXCEPT !.mounted = TRUE, !.username = u, !.effect = 1], u)]
  /\ runs' = [runs EXCEPT ![c][1] = EffectRun(u)]
  /\ UNCHANGED <<avatarCache, componentUnchanged>>

\* lines 110-211: the username prop changes; the cleanup of the previous
\* effect runs, then the effect again
ChangeUsername(c, u) ==
  /\ pc = "page"
  /\ comps[c].mounted
  /\ Cardinality({ce \in Comps \X (2..MaxEffects) : comps[ce[1]].effect >= ce[2]}) < MaxChanges
  /\ u # comps[c].username
  /\ LET e == comps[c].effect
     IN /\ comps' = [comps EXCEPT ![c] =
             EffectSync([comps[c] EXCEPT !.username = u, !.effect = e + 1], u)]
        /\ runs' = [runs EXCEPT ![c][e] = Cleanup(runs[c][e]), ![c][e + 1] = EffectRun(u)]
  /\ UNCHANGED <<avatarCache, componentUnchanged>>

\* lines 207-210: the component unmounts, and its state is discarded
Unmount(c) ==
  /\ pc = "page"
  /\ comps[c].mounted
  /\ comps' = [comps EXCEPT ![c] = [Unmounted EXCEPT !.effect = comps[c].effect]]
  /\ runs' = [runs EXCEPT ![c][comps[c].effect] = Cleanup(runs[c][comps[c].effect])]
  /\ UNCHANGED <<avatarCache, componentUnchanged>>

\* lines 143-178: the race of the image against the 3 s timer settles, with
\* onload, or with onerror or the timer
ImageSettles(c, e) ==
  /\ pc = "page"
  /\ runs[c][e].at = "image"
  /\ \E loaded \in BOOLEAN :
       LET run == runs[c][e]
           u == run.username
       IN IF loaded /\ NotCancelled(run)
            THEN /\ avatarCache' = [avatarCache EXCEPT ![u] = ClientSource(u)]
                 /\ comps' = [comps EXCEPT ![c].avatarUrl = ClientSource(u),
                                           ![c].isLoading = FALSE]
                 /\ runs' = [runs EXCEPT ![c][e].at = "done", ![c][e].result = "success"]
            ELSE IF NotCancelled(run)
              THEN /\ runs' = [runs EXCEPT ![c][e].at = "edge"]
                   /\ UNCHANGED <<avatarCache, comps>>
              ELSE /\ runs' = [runs EXCEPT ![c][e].at = "done", ![c][e].result = "dropped"]
                   /\ UNCHANGED <<avatarCache, comps>>
  /\ UNCHANGED componentUnchanged

\* What the race of the edge function against the 8 s timer settles with.
EdgeOutcomes == {"found", "not-found", "error", "timeout", "throws"}

\* lines 170-204: the race of fetch-instagram-avatar against the 8 s timer
\* settles
EdgeSettles(c, e) ==
  /\ pc = "page"
  /\ runs[c][e].at = "edge"
  /\ \E o \in EdgeOutcomes :
       LET run == runs[c][e]
           u == run.username
       IN IF ~NotCancelled(run)
            THEN /\ runs' = [runs EXCEPT ![c][e].at = "done", ![c][e].result = "dropped"]
                 /\ UNCHANGED <<avatarCache, comps>>
            ELSE IF o = "found"
              THEN /\ avatarCache' = [avatarCache EXCEPT ![u] = EdgeAvatar(u)]
                   /\ comps' = [comps EXCEPT ![c].avatarUrl = EdgeAvatar(u),
                                             ![c].isLoading = FALSE]
                   /\ runs' = [runs EXCEPT ![c][e].at = "done", ![c][e].result = "success"]
              ELSE /\ avatarCache' = [avatarCache EXCEPT ![u] = "null"]
                   /\ comps' = [comps EXCEPT ![c].hasFailed = TRUE,
                                             ![c].isLoading = FALSE]
                   /\ runs' = [runs EXCEPT ![c][e].at = "done", ![c][e].result = "failure"]
  /\ UNCHANGED componentUnchanged

\* lines 243-255: the <img> is in the document
ImgRendered(c) ==
  /\ comps[c].mounted
  /\ Rendered(comps[c]) \notin {"fallback", "spinner"}

\* line 248: onLoad of the <img>
ImgLoad(c) ==
  /\ pc = "page"
  /\ ImgRendered(c)
  /\ comps' = [comps EXCEPT ![c].isLoading = FALSE]
  /\ UNCHANGED <<avatarCache, runs, componentUnchanged>>

\* lines 249-252: onError of the <img>
ImgError(c) ==
  /\ pc = "page"
  /\ ImgRendered(c)
  /\ avatarCache' = [avatarCache EXCEPT ![comps[c].username] = "null"]
  /\ comps' = [comps EXCEPT ![c].hasFailed = TRUE]
  /\ UNCHANGED <<runs, componentUnchanged>>

\* A step of an InstagramAvatar on the page.
ComponentStep ==
  \/ \E c \in Comps, u \in Handles \cup {""} : Mount(c, u)
  \/ \E c \in Comps, u \in Handles \cup {""} : ChangeUsername(c, u)
  \/ \E c \in Comps : Unmount(c)
  \/ \E c \in Comps, e \in 1..MaxEffects : ImageSettles(c, e)
  \/ \E c \in Comps, e \in 1..MaxEffects : EdgeSettles(c, e)
  \/ \E c \in Comps : ImgLoad(c)
  \/ \E c \in Comps : ImgError(c)

----------------------------------------------------------------------------
(* BatchOcrDialog: the mappings of screenshots to items, and processAll     *)

\* The screenshots selected, in the order of the list.
MaxMappings == 3

\* The follower count that the screenshot of a mapping shows.
FileCount(id) == NumToStr(1200 * id)

\* lines 246-253: a new mapping, with the item chosen for it or none
NewMapping(id, itemId) ==
  [id |-> id, itemId |-> itemId, status |-> "pending", result |-> "", error |-> ""]

\* The mappings when processAll is clicked: each has its own item or none.
MappingLists ==
  {[k \in 1..MaxMappings |-> NewMapping(k, IF k \in withItem THEN "item" \o NumToStr(k) ELSE "")]
     : withItem \in SUBSET (1..MaxMappings)}

NoBatch == [at |-> "idle", snapshot |-> <<>>, i |-> 0, raw |-> "",
            outcome |-> [k \in 1..MaxMappings |-> ""], updates |-> <<>>]

\* lines 270-273
canProcess ==
  /\ Len(mappings) > 0
  /\ \E k \in 1..Len(mappings) : mappings[k].itemId # "" /\ mappings[k].status = "pending"

\* lines 284, 293-297, 303, 314-316, 320-322, 325-327: setMappings(prev =>
\* prev.map((m, idx) => idx === i ? {...m, status, ...} : m))
MapAt(prev, i, status, result, error) ==
  [idx \in 1..Len(prev) |->
     IF idx = i
       THEN [prev[idx] EXCEPT !.status = status, !.result = result, !.error = error]
       ELSE prev[idx]]

\* lines 279-281: the first index from i on that the loop does not skip, in
\* the mappings of the closure
NextProcessed(snapshot, i) ==
  LET S == {j \in i..Len(snapshot) :
              snapshot[j].itemId # "" /\ snapshot[j].status = "pending"}
  IN IF S = {} THEN Len(snapshot) + 1 ELSE CHOOSE j \in S : \A k \in S : j <= k

\* lines 279-284 and 335: the loop goes on at index i, up to its next await
Iterate(i) ==
  LET snapshot == IF batch.at = "idle" THEN mappings ELSE batch.snapshot
      j == NextProcessed(snapshot, i)
  IN IF j > Len(snapshot)
       THEN /\ batch' = [batch EXCEPT !.at = "finished", !.snapshot = snapshot, !.i = j]
            /\ UNCHANGED mappings
       ELSE /\ batch' = [batch EXCEPT !.at = "ocr", !.snapshot = snapshot, !.i = j]
            /\ mappings' = MapAt(mappings, j, "processing", mappings[j].result,
                                 mappings[j].error)

batchUnchanged ==
  <<pc, req, response, firecrawlKey, lovableKey, orchLocals, tried, extracted, call,
    store, writes, clientVars, avatarCache, comps, runs, notes, syncs>>

\* lines 258-265, and line 441: the button is there while the mapping is pending
removeMapping(index) ==
  /\ pc = "batch"
  /\ index \in 1..Len(mappings)
  /\ mappings[index].status = "pending"
  /\ mappings' = SubSeq(mappings, 1, index - 1) \o SubSeq(mappings, index + 1, Len(mappings))
  /\ UNCHANGED <<batch, batchUnchanged>>

\* lines 276-284, and line 466: the button is enabled
processAll ==
  /\ pc = "batch"
  /\ batch.at = "idle"
  /\ canProcess
  /\ Iterate(1)
  /\ UNCHANGED batchUnchanged

\* What readFileAsDataUrl and extract-followers-from-image end with.
BatchOcrOutcomes == {"digits", "not-digits", "failed", "throws"}

\* lines 286-305 and 328-332: the screenshot is read and the edge function
\* answers
BatchOcr ==
  /\ pc = "batch"
  /\ batch.at = "ocr"
  /\ \E o \in BatchOcrOutcomes :
       LET mapping == batch.snapshot[batch.i]
           raw == Trim(IF o = "digits" THEN FileCount(mapping.id) \o " " ELSE "12.5K")
       IN IF o \in {"failed", "throws"}
            THEN /\ mappings' = MapAt(mappings, batch.i, "error", "", o)
                 /\ batch' = [batch EXCEPT !.at = "delay", !.outcome[mapping.id] = "error"]
            ELSE IF ~IsPureDigits(raw)
              THEN /\ mappings' = MapAt(mappings, batch.i, "error", "", "format")
                   /\ batch' = [batch EXCEPT !.at = "delay", !.outcome[mapping.id] = "error"]
              ELSE /\ batch' = [batch EXCEPT !.at = "update", !.raw = raw]
                   /\ UNCHANGED mappings
  /\ UNCHANGED batchUnchanged

\* lines 307-327: the update of page_items answers
BatchUpdate ==
  /\ pc = "batch"
  /\ batch.at = "update"
  /\ \E updateError \in BOOLEAN :
       LET mapping == batch.snapshot[batch.i]
       IN IF updateError
            THEN /\ mappings' = MapAt(mappings, batch.i, "error", "", "update")
                 /\ batch' = [batch EXCEPT !.at = "delay", !.outcome[mapping.id] = "error"]
            ELSE /\ mappings' = MapAt(mappings, batch.i, "success", batch.raw, "")
                 /\ batch' = [batch EXCEPT
                      !.at = "delay", !.outcome[mapping.id] = "success",
                      !.updates = Append(@, [itemId |-> mapping.itemId, value |-> batch.raw])]
  /\ UNCHANGED batchUnchanged

\* lines 334-339: the 500 ms are over
BatchDelay ==
  /\ pc = "batch"
  /\ batch.at = "delay"
  /\ Iterate(batch.i + 1)
  /\ UNCHANGED batchUnchanged

\* A step of the dialog.
BatchStep ==
  \/ \E index \in 1..MaxMappings : removeMapping(index)
  \/ processAll
  \/ BatchOcr
  \/ BatchUpdate
  \/ BatchDelay

----------------------------------------------------------------------------
(* sync-google-sheet, and useGoogleSheetSync which invokes it                *)

\* The titles of the rows that parseCSV returns, in the order of the sheet.
SheetRows == <<"a", "b", "a">>

Titles == {SheetRows[k] : k \in 1..Len(SheetRows)}

\* What calls sync(): the timers of the effect, and the button of the page.
Invokers == {"timer", "manual"}

\* The invocations that one invoker starts.
MaxSyncs == 2

NoSync ==
  [at |-> "idle", idx |-> 0, existingTitles |-> {}, insertedCount |-> 0,
   skippedCount |-> 0, started |-> 0, status |-> 0]

\* lines 167-174: the first row from idx on whose title is not in existing
FirstNew(idx, existing) ==
  LET S == {k \in idx..Len(SheetRows) : SheetRows[k] \notin existing}
  IN IF S = {} THEN Len(SheetRows) + 1 ELSE CHOOSE k \in S : \A j \in S : k <= j

\* lines 167-203: the loop goes on at row idx, up to the next insert or up to
\* the response
SyncLoop(sync, idx) ==
  LET k == FirstNew(idx, sync.existingTitles)
      counted == [sync EXCEPT !.idx = k, !.skippedCount = @ + (k - idx)]
  IN IF k > Len(SheetRows)
       THEN [counted EXCEPT !.at = "done", !.status = 200]
       ELSE [counted EXCEPT !.at = "insert"]

syncUnchanged ==
  <<pc, req, response, firecrawlKey, lovableKey, orchLocals, tried, extracted, call,
    store, writes, clientVars, avatarCache, comps, runs, mappings, batch>>

\* useGoogleSheetSync lines 27-31 and 76-88: a timer or the button calls
\* sync(), whether or not an invocation is in flight
SyncInvoke(s) ==
  /\ pc = "sync"
  /\ syncs[s].at \in {"idle", "done"}
  /\ syncs[s].started < MaxSyncs
  /\ syncs' = [syncs EXCEPT ![s] = [NoSync EXCEPT !.at = "start", !.started = syncs[s].started + 1]]
  /\ UNCHANGED <<notes, syncUnchanged>>

\* What the checks of the caller and the fetch of the sheet end with.
SyncStartOutcomes == {"no-authorization", "unauthorized", "not-admin", "sheet-failed", "rows"}

\* lines 104-152 and 205-215: the caller is checked and the sheet is fetched
SyncStart(s) ==
  /\ pc = "sync"
  /\ syncs[s].at = "start"
  /\ \E o \in SyncStartOutcomes :
       syncs' = [syncs EXCEPT ![s] =
         IF o = "rows" THEN [@ EXCEPT !.at = "select"]
         ELSE [@ EXCEPT !.at = "done",
                        !.status = IF o = "not-admin" THEN 403
                                   ELSE IF o = "sheet-failed" THEN 500 ELSE 401]]
  /\ UNCHANGED <<notes, syncUnchanged>>

\* lines 155-174: the notes of the user are read, the error of the query is
\* not looked at, and the loop starts
SyncSelect(s) ==
  /\ pc = "sync"
  /\ syncs[s].at = "select"
  /\ \E failed \in BOOLEAN :
       LET existingTitles == IF failed THEN {} ELSE {t \in Titles : notes[t] > 0}
       IN syncs' = [syncs EXCEPT ![s] =
            SyncLoop([@ EXCEPT !.existingTitles = existingTitles], 1)]
  /\ UNCHANGED <<notes, syncUnchanged>>

\* lines 175-203: the insert of the row answers, and the loop goes on
SyncInsert(s) ==
  /\ pc = "sync"
  /\ syncs[s].at = "insert"
  /\ \E insertError \in BOOLEAN :
       LET title == SheetRows[syncs[s].idx]
       IN IF insertError
            THEN /\ syncs' = [syncs EXCEPT ![s] = SyncLoop(@, syncs[s].idx + 1)]
                 /\ UNCHANGED notes
            ELSE /\ notes' = [notes EXCEPT ![title] = @ + 1]
                 /\ syncs' = [syncs EXCEPT ![s] =
                      SyncLoop([@ EXCEPT !.insertedCount = @ + 1,
                                         !.existingTitles = @ \cup {title}],
                               syncs[s].idx + 1)]
  /\ UNCHANGED syncUnchanged

\* A step of the sheet sync.
SyncStep ==
  \/ \E s \in Invokers : SyncInvoke(s)
  \/ \E s \in Invokers : SyncStart(s)
  \/ \E s \in Invokers : SyncSelect(s)
  \/ \E s \in Invokers : SyncInsert(s)

----------------------------------------------------------------------------
(* One run: one invocation of an edge function, or one click on the fetch   *)
(* button of an item.                                                       *)

\* The count stored before the run: none, or an exact one.
StoredBefore == {NULL, Some("9094")}

\* The request bodies: a body that is no JSON, or url and itemId.
Requests ==
  {[url |-> "", itemId |-> FALSE, malformed |-> TRUE]}
  \cup {[url |-> u, itemId |-> i, malformed |-> FALSE] : u \in Urls, i \in BOOLEAN}

NoRequest == [url |-> "", itemId |-> FALSE, malformed |-> FALSE]

Items == {[url |-> u] : u \in {NULL} \cup {Some(x) : x \in Urls}}

Init ==
  /\ pc \in {"start", "d-start", "f-start", "i-start", "v-start", "o-start", "call",
            "idle", "page", "batch", "sync"}
  /\ call \in IF pc = "call" THEN {Some(c) : c \in Calls} ELSE {NULL}
  /\ cpc \in IF pc = "idle" THEN {"start", "ocr-start"} ELSE {"idle"}
  /\ req \in IF pc \in {"d-start", "f-start", "i-start"} THEN Requests ELSE {NoRequest}
  /\ item \in IF cpc = "start" THEN Items ELSE {[url |-> NULL]}
  /\ response = NULL
  /\ firecrawlKey \in IF pc \in {"call", "page", "batch", "sync"} THEN {FALSE} ELSE BOOLEAN
  /\ lovableKey \in IF pc \in {"call", "page", "batch", "sync"} THEN {FALSE} ELSE BOOLEAN
  /\ OrchInit
  /\ tried = <<>>
  /\ extracted = NULL
  /\ store \in IF pc \in {"start", "v-start", "call", "page", "batch", "sync"} THEN {NULL} ELSE StoredBefore
  /\ localCount = store
  /\ writes = <<>>
  /\ toasts = <<>>
  /\ avatarCache = EmptyCache
  /\ comps = [c \in Comps |-> Unmounted]
  /\ runs = [c \in Comps |-> [e \in 1..MaxEffects |-> NoRun]]
  /\ mappings \in IF pc = "batch" THEN MappingLists ELSE {<<>>}
  /\ batch = NoBatch
  /\ notes \in IF pc = "sync" THEN [Titles -> {0, 1}] ELSE {[t \in Titles |-> 0]}
  /\ syncs = [s \in Invokers |-> NoSync]

\* A step of a handler or of the page.
HandlerStep ==
  \/ Start
  \/ UnavatarStep
  \/ WebApiStep
  \/ HtmlStep
  \/ FirecrawlStep
  \/ AiStep
  \/ \E m \in Models : AiModelReply(m)
  \/ AiReconcile
  \/ DataStart
  \/ DataFirecrawl
  \/ DataHtml
  \/ DataWebApi
  \/ DataMobileApi
  \/ DataAi
  \/ ScrapeStart
  \/ ScrapeFetch
  \/ ScrapeUpdate
  \/ InfoStart
  \/ InfoApi
  \/ InfoPage
  \/ InfoUpdate
  \/ AvatarStart
  \/ AvatarWebApi
  \/ AvatarHtml
  \/ AvatarFirecrawl
  \/ AvatarAi
  \/ OcrStart
  \/ OcrAi
  \/ OcrClientInvoke
  \/ OcrClientReceive
  \/ OcrClientUpdate
  \/ ClientInvoke
  \/ ClientReceive
  \/ ClientUpdate

Next ==
  \/ HandlerStep
  \/ ParseCall
  \/ FormatCall
  \/ ComponentStep
  \/ BatchStep
  \/ SyncStep

Spec == Init /\ [][Next]_vars

----------------------------------------------------------------------------
(* Sources that never respond *)

\* The handler is about to await a fetch that no timer or AbortSignal bounds.
AwaitsUnboundedFetch ==
  \/ pc \in {"unavatar", "webapi"}
  \/ pc = "html" /\ NeedMore(avatarUrl, followersCount)
  \/ pc = "firecrawl" /\ NeedMore(avatarUrl, followersCount) /\ firecrawlKey
  \/ pc = "aiWait" /\ aiPending # {}
  \/ pc = "d-firecrawl" /\ firecrawlKey
  \/ pc \in {"d-html", "d-webapi", "d-mobile"}
  \/ pc = "d-ai" /\ lovableKey
  \/ pc = "f-scrape"
  \/ pc \in {"i-api", "i-page"}
  \/ pc \in {"v-webapi", "v-html"}
  \/ pc = "v-firecrawl" /\ firecrawlKey
  \/ pc = "o-ai"

\* The source never responds: the promise of fetch never settles and the
\* handler stays at its await.
SourceSilent ==
  /\ AwaitsUnboundedFetch
  /\ pc' = "awaiting"
  /\ UNCHANGED <<req, response, firecrawlKey, lovableKey, orchLocals, tried, extracted, call,
                 store, writes, clientVars, pageVars>>

\* The runs of the handlers and of the page; a call of a pure function
\* awaits nothing.
InitWithSilence == Init /\ pc \notin {"call", "page", "batch", "sync"}

NextWithSilence == HandlerStep \/ SourceSilent

\* The event loop runs every continuation that can run.
SpecWithSilence ==
  InitWithSilence /\ [][NextWithSilence]_vars /\ WF_vars(NextWithSilence)

----------------------------------------------------------------------------
(* Claims about the auto-fetch-instagram orchestrator *)

Answered ==
  /\ pc = "done"
  /\ response # NULL
  /\ "success" \in DOMAIN Val(response)
  /\ Val(response).success

\* An auto-fetch-instagram invocation has answered with its FetchResult.
OrchAnswered == Answered /\ Len(attempts) >= 2 /\ attempts[1].name = "unavatar"

NetworkNames == {"unavatar", "web-api", "html", "firecrawl"}

\* The first attempt, among those of the strategies in names, that returned
\* a non-null field (avatarUrl or followersCount), or 0.
FirstYielding(field, names) ==
  LET hits == {i \in 1..Len(attempts) :
                 attempts[i].name \in names /\ attempts[i][field] # NULL}
  IN IF hits = {} THEN 0 ELSE CHOOSE i \in hits : \A j \in hits : i <= j

\* C1: once avatarUrl and followersCount are both non-null, no step of the
\* invocation calls another extractor: the list of attempts stays as it is
\* and no AI model is queried.
C1_ShortCircuit ==
  [][(avatarUrl # NULL /\ followersCount # NULL)
       => attempts' = attempts /\ aiPending' = {} /\ aiOut' = NULL]_vars

\* Both fields came from unavatar and the web API; the HTML fetch, Firecrawl
\* and the AI were not called although both keys are set.
C1_Witness ==
  /\ OrchAnswered
  /\ firecrawlKey /\ lovableKey
  /\ avatarUrl # NULL /\ followersCount # NULL
  /\ Len(attempts) = 2

\* C2: first-writer-wins.  In every state avatarUrl is what the earliest
\* yielding attempt returned (null when none yielded); followersCount is what
\* the earliest yielding network attempt returned, and when none yielded it
\* is null or the AI consensus value.
C2_FirstWriterWins ==
  LET a == FirstYielding("avatarUrl", NetworkNames)
      f == FirstYielding("followersCount", NetworkNames)
  IN /\ avatarUrl = IF a = 0 THEN NULL ELSE attempts[a].avatarUrl
     /\ IF f # 0 THEN followersCount = attempts[f].followersCount
        ELSE \/ followersCount = NULL
             \/ aiOut # NULL /\ followersCount = Val(aiOut).followersCount

\* Two attempts returned different counts and the answer holds the earlier.
C2_Witness ==
  /\ OrchAnswered
  /\ \E i, j \in 1..Len(attempts) :
       /\ i < j
       /\ attempts[i].followersCount # NULL
       /\ attempts[j].followersCount # NULL
       /\ attempts[i].followersCount # attempts[j].followersCount
       /\ followersCount = attempts[i].followersCount

Priority == <<"unavatar", "web-api", "html", "firecrawl", "ai">>

\* The strategies that supplied a field of the final result.
Contributors ==
  LET a == FirstYielding("avatarUrl", NetworkNames)
      f == FirstYielding("followersCount", NetworkNames)
  IN (IF a = 0 THEN {} ELSE {attempts[a].name})
     \cup (IF f # 0 THEN {attempts[f].name}
           ELSE IF followersCount # NULL THEN {"ai"} ELSE {})

\* The names of Priority[i..] that are in set, joined by "+"; alone, the AI
\* consensus goes by "ai-consensus".
RECURSIVE JoinFrom(_, _, _)
JoinFrom(i, set, acc) ==
  IF i > Len(Priority) THEN acc
  ELSE IF Priority[i] \notin set THEN JoinFrom(i + 1, set, acc)
  ELSE JoinFrom(i + 1, set,
                IF acc = "none"
                THEN (IF Priority[i] = "ai" THEN "ai-consensus" ELSE Priority[i])
                ELSE acc \o "+" \o Priority[i])

\* C3: the method of a FetchResult is the "+"-joined names, in priority
\* order, of exactly the strategies that supplied a field of the result.
C3_MethodProvenance ==
  OrchAnswered => Val(response).method = JoinFrom(1, Contributors, "none")

\* C4: when unavatar yields the avatar and the web API yields followers only,
\* the result has both fields and its method is "unavatar+web-api".
C4_AvatarThenFollowers ==
  (/\ OrchAnswered
   /\ attempts[1].avatarUrl # NULL
   /\ ~attempts[2].threw
   /\ attempts[2].avatarUrl = NULL
   /\ attempts[2].followersCount # NULL)
  => /\ Val(response).avatarUrl = attempts[1].avatarUrl
     /\ Val(response).followersCount = Some(NumToStr(Val(attempts[2].followersCount)))
     /\ Val(response).method = "unavatar+web-api"

C4_Witness ==
  /\ OrchAnswered
  /\ attempts[1].avatarUrl # NULL
  /\ attempts[2].avatarUrl = NULL
  /\ attempts[2].followersCount = Some(1200)
  /\ Val(response).followersCount = Some("1200")

----------------------------------------------------------------------------
(* Claims about what the fetch paths write to followers_count *)

\* C5: every value a fetch path writes to followers_count is a pure-digit
\* string, whether the edge function or the client issues the update.
C5_OnlyDigitsWritten ==
  \A i \in 1..Len(writes) : IsPureDigits(writes[i].value)

\* digits with optional "," separators, the first character a digit
DigitPattern(raw) ==
  /\ Len(raw) >= 1
  /\ Chr(raw, 1) \in Digits
  /\ \A i \in 1..Len(raw) : Chr(raw, i) \in Digits \cup {","}

\* a K/k/M/m after digits, "." and ","
EstimatePattern(raw) ==
  /\ Len(raw) >= 2
  /\ Chr(raw, Len(raw)) \in {"K", "k", "M", "m"}
  /\ \A i \in 1..(Len(raw) - 1) : Chr(raw, i) \in Digits \cup {".", ","}

ErrorToast(text) == [level |-> "error", text |-> text]

\* The client has a successful reply with a followersCount in hand.
GateReached ==
  /\ cpc = "invoking" /\ cpc' # "invoking"
  /\ toasts' # Append(toasts, ErrorToast("invoke-error"))
  /\ Val(response).success
  /\ BodyFollowers(Val(response)) # NULL

\* C6: the gate of fetchInstagramFollowers lets a fetched value through to
\* the update if and only if it matches the digit pattern; a rejected value
\* (K/M-suffixed or not numeric) is reported with an error toast, no update is
\* issued and the item's followers_count in local state stays as it is.  The
\* client writes nothing but gate-accepted values, with the commas removed.
C6_PersistenceGate ==
  [][/\ GateReached =>
          LET raw == Val(BodyFollowers(Val(response)))
          IN /\ (cpc' = "updating") <=> DigitPattern(raw)
             /\ EstimatePattern(raw) =>
                  toasts' = Append(toasts, ErrorToast("estimate-use-manual-entry"))
             /\ ~DigitPattern(raw) =>
                  /\ cpc' = "done"
                  /\ Len(toasts') = Len(toasts) + 1
                  /\ toasts'[Len(toasts')].level = "error"
                  /\ writes' = writes /\ store' = store
                  /\ localCount' = localCount
     /\ (cpc = "done" => cpc' = "done" /\ writes' = writes /\ localCount' = localCount)
     /\ (writes' # writes /\ writes'[Len(writes')].by = "client") =>
          /\ cpc = "updating"
          /\ DigitPattern(Val(BodyFollowers(Val(response))))
          /\ writes'[Len(writes')].value
               = RemoveCommas(Val(BodyFollowers(Val(response))))
     /\ (localCount' # localCount /\ cpc # "ocr-updating") =>
          cpc = "updating" /\ store' = localCount'
    ]_vars

\* The AI search answered "11.1K": the gate rejected it, the client wrote
\* nothing and the exact count of before is still there.
C6_Witness ==
  /\ cpc = "done" /\ pc = "done"
  /\ response # NULL
  /\ BodyFollowers(Val(response)) = Some("11.1K")
  /\ toasts = <<ErrorToast("estimate-use-manual-entry")>>
  /\ writes = <<>>
  /\ localCount = Some("9094") /\ store = Some("9094")

----------------------------------------------------------------------------
(* Claims about the Consensus Resolver and the AI path *)

\* The models whose query gave a number.
Candidates == {i \in Models : aiResults[i] # NULL}

CandidateValue(i) == Val(aiResults[i])

\* |a - b| / max(a, b, 1) <= 0.02, in integers: 50 |a - b| <= max(a, b, 1)
RelDiffAtMostTwoPercent(a, b) ==
  LET d == IF a >= b THEN a - b ELSE b - a
      m == IF a >= b /\ a >= 1 THEN a ELSE IF b >= 1 THEN b ELSE 1
  IN d <= m \div 50

AgreeingPairExists ==
  \E i, j \in Candidates :
    i < j /\ RelDiffAtMostTwoPercent(CandidateValue(i), CandidateValue(j))

\* C7: the resolver's confidence is "high" if and only if two of the non-null
\* candidates are within 2% of each other, and "low" in every other case.
C7_HighIffAgreeingPair ==
  aiOut # NULL =>
    /\ Val(aiOut).confidence \in {"high", "low"}
    /\ Val(aiOut).confidence = "high" <=> AgreeingPairExists

\* 10000 and 10100 agree: confidence "high", value 10050.
C7_Witness ==
  /\ aiOut = Some([followersCount |-> Some(10050), confidence |-> "high"])
  /\ \E i, j \in Candidates :
       CandidateValue(i) = 10000 /\ CandidateValue(j) = 10100
  /\ Cardinality(Candidates) = 2

\* C8: without an agreeing pair the value is null for no candidate, the
\* candidate for one, and for n >= 2 the element at index floor(n / 2)
\* (counting from 0) of the candidates in ascending order.
C8_LowConfidenceValue ==
  (aiOut # NULL /\ Val(aiOut).confidence = "low") =>
    LET n == Cardinality(Candidates)
        v == Val(aiOut).followersCount
    IN /\ n = 0 => v = NULL
       /\ n = 1 => \E i \in Candidates : v = Some(CandidateValue(i))
       /\ n >= 2 =>
            /\ v # NULL
            /\ \E i \in Candidates : CandidateValue(i) = Val(v)
            /\ Cardinality({i \in Candidates : CandidateValue(i) < Val(v)}) <= n \div 2
            /\ Cardinality({i \in Candidates : CandidateValue(i) <= Val(v)}) > n \div 2

\* 10000 and 20000 disagree: the value is sorted[1] = 20000.
C8_Witness ==
  /\ aiOut = Some([followersCount |-> Some(20000), confidence |-> "low"])
  /\ Cardinality(Candidates) = 2
  /\ \E i \in Candidates : CandidateValue(i) = 10000

\* Every network extractor was tried and none returned a field; exactly two
\* models gave a number and the two agree within tolerance.
AiOnlyCase ==
  /\ OrchAnswered
  /\ aiOut # NULL
  /\ \A k \in 1..Len(attempts) :
       attempts[k].name \in NetworkNames =>
         attempts[k].avatarUrl = NULL /\ attempts[k].followersCount = NULL
  /\ Cardinality(Candidates) = 2
  /\ AgreeingPairExists

\* round((a + b) / 2) of the two candidates
CandidatesMean ==
  LET sum == LET i == CHOOSE i \in Candidates : TRUE
                 j == CHOOSE j \in Candidates : j # i
             IN CandidateValue(i) + CandidateValue(j)
  IN CHOOSE m \in {sum \div 2, sum \div 2 + 1} : 2 * m \in {sum, sum + 1}

LowConfidenceCase ==
  /\ OrchAnswered
  /\ aiOut # NULL
  /\ Val(aiOut).confidence = "low"
  /\ Val(aiOut).followersCount # NULL

\* fetch-instagram-data answered from its AI search.
AiSearchAnswered ==
  /\ pc = "done" /\ response # NULL
  /\ Len(tried) >= 1 /\ tried[Len(tried)].name = "ai-search"
  /\ "method" \in DOMAIN Val(response)
  /\ Val(response).method = "ai-search"

\* ends in K, k, M or m, or is longer than 3 characters and ends in "00"
LooksEstimated(raw) ==
  \/ Len(raw) >= 1 /\ Chr(raw, Len(raw)) \in {"K", "k", "M", "m"}
  \/ Len(raw) > 3 /\ Chr(raw, Len(raw)) = "0" /\ Chr(raw, Len(raw) - 1) = "0"

HasMarker(body) == "confidence" \in DOMAIN body \/ "isEstimate" \in DOMAIN body

----------------------------------------------------------------------------
(* Claims about failures *)

FailureKinds == {"throws", "non-2xx", "nothing", "no-json", "bad-json", "not-found"}

\* fetch-instagram-data ran its methods to the end and each attempt failed.
DataExhausted ==
  /\ pc = "done" /\ response # NULL
  /\ Len(tried) >= 3
  /\ \A i \in 1..Len(tried) : tried[i].kind \in FailureKinds

\* auto-fetch-instagram ran its extractors and none gave a field.
OrchExhausted ==
  /\ pc = "done" /\ response # NULL
  /\ Len(attempts) >= 3
  /\ avatarUrl = NULL /\ followersCount = NULL

TriedNames == [i \in 1..Len(tried) |-> tried[i].name]

\* C11: when every extractor fails the response has success false, a reason
\* and the list of the strategies attempted in the invocation (a strategy
\* skipped for want of its key is not in the list).
C11_ExhaustedListsAttempted ==
  /\ DataExhausted =>
       /\ ~Val(response).success
       /\ "error" \in DOMAIN Val(response)
       /\ "triedMethods" \in DOMAIN Val(response)
       /\ Val(response).triedMethods = TriedNames
  /\ OrchExhausted => ~Val(response).success

OrchPcs == {"start", "unavatar", "webapi", "html", "firecrawl", "ai", "aiWait"}

DataPcs == {"d-start", "d-firecrawl", "d-html", "d-webapi", "d-mobile", "d-ai"}

AttemptNames == {attempts[i].name : i \in 1..Len(attempts)}

\* The methods fetch-instagram-data has to go through when none finds a count.
DataMethodsWithKeys ==
  (IF firecrawlKey THEN <<"firecrawl">> ELSE <<>>)
  \o <<"profile-html", "web-api", "mobile-api">>
  \o (IF lovableKey THEN <<"ai-search">> ELSE <<>>)

\* C12: no exception escapes auto-fetch-instagram or the fetch-instagram-data
\* cascade.  Whatever each extractor does (returns, answers non-2xx, throws,
\* sends a body that is no JSON), the handler ends with a JSON body that has a
\* success field; an extractor that fails does not end the invocation, and
\* every later extractor whose condition holds is still tried.
C12_NoExceptionEscapes ==
  /\ [][/\ (pc \in OrchPcs \cup DataPcs /\ pc' = "done") =>
             /\ response' # NULL
             /\ "success" \in DOMAIN Val(response')
             /\ Val(response').success \in BOOLEAN
        /\ (Len(attempts') > Len(attempts) /\ attempts'[Len(attempts')].threw) =>
             /\ pc' # "done" /\ response' = NULL
             /\ <<avatarUrl', followersCount', method'>>
                  = <<avatarUrl, followersCount, method>>
        /\ (Len(tried') > Len(tried)
            /\ tried'[Len(tried')].kind \in FailureKinds
            /\ tried'[Len(tried')].name # "ai-search") =>
             pc' # "done" /\ response' = NULL
       ]_vars
  /\ [](OrchAnswered =>
          /\ attempts[2].name = "web-api"
          /\ (avatarUrl = NULL \/ followersCount = NULL) =>
               /\ "html" \in AttemptNames
               /\ firecrawlKey => "firecrawl" \in AttemptNames
          /\ (lovableKey /\ FirstYielding("followersCount", NetworkNames) = 0) =>
               "ai" \in AttemptNames)
  /\ [](DataExhausted => TriedNames = DataMethodsWithKeys)

\* The web API and the HTML fetch threw; Firecrawl was still tried and gave
\* the count that the response carries.
C12_Witness ==
  /\ OrchAnswered
  /\ Len(attempts) = 4
  /\ attempts[2].threw /\ attempts[3].threw
  /\ attempts[4].name = "firecrawl"
  /\ attempts[4].followersCount = Some(1200)
  /\ Val(response).followersCount = Some("1200")

\* The handler is past the checks of its request and a key it would use is
\* not set.
MissingKeyCase ==
  \/ pc \in (OrchPcs \ {"start"}) \cup (DataPcs \ {"d-start"})
       /\ (~firecrawlKey \/ ~lovableKey)
  \/ /\ pc = "f-start"
     /\ ~req.malformed /\ req.url # "" /\ Includes(req.url, "instagram.com")
     /\ ~firecrawlKey

\* C13: a missing API key only disables its extractor.  An invocation with a
\* well-formed request and a key unset still runs the other extractors and
\* answers with their result; it is not answered with a failure status, and
\* success is false only when the other extractors were tried and failed.
C13_MissingKeyNotFatal ==
  [][(MissingKeyCase /\ pc' = "done") =>
       /\ StatusOf(Val(response')) = 200
       /\ \/ Val(response').success
          \/ {"profile-html", "web-api", "mobile-api"}
               \subseteq {tried'[i].name : i \in 1..Len(tried')}
    ]_vars

\* C14: every network call is bounded by a timeout, so an invocation that has
\* started eventually returns a response even when a source never responds.
C14_EventuallyResponds ==
  (pc \notin {"idle", "done"}) ~> (pc = "done")

----------------------------------------------------------------------------
(* Claims about values and their renderings *)

\* The invocation answered with a successful result that names its method
\* and carries a followers count.
SuccessfulFetchResult ==
  /\ Answered
  /\ "method" \in DOMAIN Val(response)
  /\ Val(response).method # "image-ocr"
  /\ BodyFollowers(Val(response)) # NULL

\* C15: the followersCount of a successful FetchResult is a string of the
\* characters 0-9 only, whichever strategy produced it.
C15_CanonicalDigits ==
  SuccessfulFetchResult =>
    LET fc == Val(BodyFollowers(Val(response)))
    IN Len(fc) >= 1 /\ \A i \in 1..Len(fc) : Chr(fc, i) \in Digits

\* extract-followers-from-image answered with success.
OcrSucceeded ==
  /\ pc = "done"
  /\ response # NULL
  /\ "method" \in DOMAIN Val(response)
  /\ Val(response).method = "image-ocr"

\* C16: a success answer of extract-followers-from-image carries a
\* followersCount of the characters 0-9 only; and the client writes from a
\* screenshot nothing but such a string.
C16_OcrPureInteger ==
  /\ OcrSucceeded => IsPureDigits(Val(BodyFollowers(Val(response))))
  /\ \A i \in 1..Len(writes) :
       writes[i].by = "client-ocr" => IsPureDigits(writes[i].value)

\* A call of fn has returned.
Called(fn) == call # NULL /\ Val(call).fn = fn /\ Val(call).out # NULL

\* The mantissa of the specified parser: digits with at most one point.
IsMantissa(m) ==
  /\ Len(m) >= 1
  /\ \A i \in 1..Len(m) : Chr(m, i) \in Digits \cup {"."}
  /\ Cardinality({i \in 1..Len(m) : Chr(m, i) = "."}) <= 1
  /\ \E i \in 1..Len(m) : Chr(m, i) \in Digits

\* The mantissa m times mult, rounded to the nearest integer, a half upwards.
MantissaTimes(m, mult) ==
  LET point == IF \E i \in 1..Len(m) : Chr(m, i) = "."
               THEN CHOOSE i \in 1..Len(m) : Chr(m, i) = "." ELSE Len(m) + 1
      whole == DigitsToNum(SubSeq(m, 1, point - 1))
      frac == SubSeq(m, point + 1, Len(m))
      scaled == DigitsToNum(frac) * mult
      den == Pow10(Len(frac))
  IN whole * mult + scaled \div den + (IF 2 * (scaled % den) >= den THEN 1 ELSE 0)

\* The specified parser, on a string whose surrounding white space, and the
\* white space before its suffix letter, are no part of its shape.
SpecifiedParse(raw) ==
  LET s == Trim(raw)
      last == IF Len(s) >= 1 THEN Chr(s, Len(s)) ELSE ""
      m == TrimRight(SubSeq(s, 1, Len(s) - 1))
  IN IF Len(s) >= 1 /\ Chr(s, 1) \in Digits /\ IsPureDigits(RemoveCommas(s))
     THEN Some(DigitsToNum(RemoveCommas(s)))
     ELSE IF last \in {"K", "k"} /\ IsMantissa(m) THEN Some(MantissaTimes(m, 1000))
     ELSE IF last \in {"M", "m"} /\ IsMantissa(m) THEN Some(MantissaTimes(m, 1000000))
     ELSE NULL

\* C17: parseAiFollowers returns what the specified parser returns: the
\* integer of a digit string with optional commas, the rounded product of a
\* decimal with K or M, null for every other shape; and the plain digits of
\* an integer n below 10,000,000 parse to n.
C17_ParserAgrees ==
  Called("parseAiFollowers") =>
    /\ Val(Val(call).out) = SpecifiedParse(Val(Val(call).arg))
    /\ \A n \in SampleCounts :
         Val(Val(call).arg) = NumToStr(n) => Val(Val(call).out) = Some(n)

\* "1.2345K" was parsed to 1235.
C17_Witness ==
  /\ Called("parseAiFollowers")
  /\ Val(Val(call).arg) = "1.2345K"
  /\ Val(Val(call).out) = Some(1235)

\* C18: formatFollowers renders the digits of n exactly, with thousands
\* separators, below 10,000; as X.YM from 1,000,000; as X.YK between; a
\* trailing ".0" stripped.
C18_FormatFollowers ==
  (Called("formatFollowers") /\ Val(call).arg # NULL /\ IsPureDigits(Val(Val(call).arg))) =>
    LET n == DigitsToNum(Val(Val(call).arg))
    IN Val(Val(call).out) =
         IF n < 10000 THEN toLocaleString(n)
         ELSE IF n >= 1000000 THEN StripPointZero(toFixed1(n, 1000000)) \o "M"
         ELSE StripPointZero(toFixed1(n, 1000)) \o "K"

\* The handle the running handler took from the url of its request, once it
\* is past the extraction; NULL elsewhere.
HandleInUse ==
  IF pc \in {"d-firecrawl", "d-html", "d-webapi", "d-mobile", "d-ai"}
  THEN dataGetInstagramUsername(req.url)
  ELSE IF pc \in {"i-api", "i-page", "i-update"} THEN infoUsernameMatch(req.url)
  ELSE NULL

\* C19: the handle a handler runs its extractors for is never empty and
\* never a reserved path segment: for a url whose first segment is reserved
\* the extraction returns no handle and no extractor is run.
C19_NoReservedHandle ==
  HandleInUse # NULL => Val(HandleInUse) # "" /\ Val(HandleInUse) \notin ReservedSegments

\* The place of an extractor in the priority order: avatar proxy, public
\* web-profile API (the mobile API another endpoint of it), direct HTML
\* fetch, third-party scrape service, AI query.
PriorityRank(name) ==
  CASE name = "unavatar" -> 10
    [] name = "web-api" -> 20
    [] name = "mobile-api" -> 25
    [] name \in {"html", "profile-html"} -> 30
    [] name = "firecrawl" -> 40
    [] name \in {"ai", "ai-search"} -> 50

OrchInPriorityOrder ==
  \A i, j \in 1..Len(attempts) :
    i < j => PriorityRank(attempts[i].name) < PriorityRank(attempts[j].name)

\* C20: the attempts of one invocation, of auto-fetch-instagram and of the
\* fetch-instagram-data cascade, are strictly increasing in the priority
\* order; so none is made twice.
C20_PriorityOrder ==
  /\ OrchInPriorityOrder
  /\ \A i, j \in 1..Len(tried) :
       i < j => PriorityRank(tried[i].name) < PriorityRank(tried[j].name)

----------------------------------------------------------------------------
(* Claims about the AI consensus, the extractors and the page components *)

\* The names of the attempts auto-fetch-instagram makes before the AI
\* consensus when no count is found, with the keys of this run.
EarlierStrategies ==
  {"unavatar", "web-api", "html"} \cup (IF firecrawlKey THEN {"firecrawl"} ELSE {})

\* C21: the AI consensus is invoked only with followersCount still null after
\* every earlier strategy was tried, none of which yielded a count; and from
\* its invocation to the answer avatarUrl stays what it was.
C21_AiLastResort ==
  [][/\ (pc = "ai" /\ pc' = "aiWait") =>
          /\ followersCount = NULL
          /\ EarlierStrategies \subseteq AttemptNames
          /\ \A i \in 1..Len(attempts) : attempts[i].followersCount = NULL
     /\ (Len(attempts') > Len(attempts) /\ attempts'[Len(attempts')].name = "ai") =>
          pc = "aiWait"
     /\ (pc \in {"ai", "aiWait"}) => avatarUrl' = avatarUrl
    ]_vars

\* The AI consensus supplied the count next to an avatar found earlier.
C21_Witness ==
  /\ OrchAnswered
  /\ attempts[Len(attempts)].name = "ai"
  /\ avatarUrl # NULL
  /\ followersCount # NULL
  /\ Val(response).avatarUrl = avatarUrl

\* The candidates in ascending order of their values: the models that gave a
\* number, listed so that no value is above the next.
CandidatesAscending ==
  LET n == Cardinality(Candidates)
  IN CHOOSE f \in [1..n -> Candidates] :
       /\ \A i, j \in 1..n : i # j => f[i] # f[j]
       /\ \A i \in 1..(n - 1) : CandidateValue(f[i]) <= CandidateValue(f[i + 1])

\* The value at place i of the ascending candidates.
Ascending(i) == CandidateValue(CandidatesAscending[i])

\* C22: a "high" value is round((a + b) / 2) of the pair (i, j), i < j, of
\* the ascending candidates that agrees within tolerance and has no agreeing
\* pair before it in lexicographic order.
C22_FirstAgreeingPair ==
  (aiOut # NULL /\ Val(aiOut).confidence = "high") =>
    LET n == Cardinality(Candidates)
    IN \E i, j \in 1..n :
         /\ i < j
         /\ RelDiffAtMostTwoPercent(Ascending(i), Ascending(j))
         /\ \A k, l \in 1..n :
              (k < l /\ (k < i \/ (k = i /\ l < j))) =>
                ~RelDiffAtMostTwoPercent(Ascending(k), Ascending(l))
         /\ Val(aiOut).followersCount # NULL
         /\ 2 * Val(Val(aiOut).followersCount)
              \in {Ascending(i) + Ascending(j), Ascending(i) + Ascending(j) + 1}

\* 10000, 10100 and 10200 agree pairwise: the value is that of the first
\* pair, 10050, not 10100 or 10150.
C22_Witness ==
  /\ aiOut = Some([followersCount |-> Some(10050), confidence |-> "high"])
  /\ Cardinality(Candidates) = 3
  /\ {CandidateValue(i) : i \in Candidates} = {10000, 10100, 10200}

\* C23: the reconciliation starts only when every model query has settled,
\* in whatever order they settle; a query settles alone, to a number or to
\* null, and leaves the other queries and the handler as they are.
C23_FanIn ==
  [][/\ (aiOut = NULL /\ aiOut' # NULL) =>
          /\ aiPending = {}
          /\ pc = "aiWait"
          /\ aiResults' = aiResults
     /\ (pc = "aiWait" /\ aiPending' # aiPending) =>
          \E m \in aiPending :
            /\ aiPending' = aiPending \ {m}
            /\ \A o \in Models \ {m} : aiResults'[o] = aiResults[o]
            /\ pc' = "aiWait"
            /\ aiOut' = NULL /\ response' = response
    ]_vars

\* The third model answered first, the second failed next, the first is
\* still outstanding: nothing is reconciled yet.
C23_Witness ==
  /\ pc = "aiWait"
  /\ aiPending = {1}
  /\ aiResults[2] = NULL /\ aiResults[3] # NULL
  /\ aiOut = NULL /\ response = NULL

\* C24: no call of tryUnavatar, tryWebApi, tryHtmlFetch or tryFirecrawl ends
\* in an exception: each returns its result, with null fields on a failure.
C24_ExtractorsNeverThrow ==
  \A i \in 1..Len(attempts) :
    attempts[i].name \in NetworkNames => ~attempts[i].threw

\* The cache holds a fetched avatar URL for the handle.
CachedUrl(cache, u) == cache[u] \notin {"undefined", "null"}

\* C25: a step of a run of fetchAvatar never replaces the avatar URL that the
\* cache holds for a handle by the failure marker null, under every
\* interleaving of the fetches of the instances.
C25_CachedUrlSurvives ==
  [][\A u \in Handles :
       (CachedUrl(avatarCache, u) /\ runs' # runs) => avatarCache'[u] # "null"]_vars

\* C26: a step of a run of fetchAvatar whose effect was cleaned up, whichever
\* of the image, its 3 s timer, the edge function or the 8 s timer settled,
\* writes nothing to the avatar cache and sets no state of a component.
C26_CancelledRunWritesNothing ==
  [][\A c \in Comps, e \in 1..MaxEffects :
       (runs[c][e].cancelled /\ runs'[c][e] # runs[c][e])
         => avatarCache' = avatarCache /\ comps' = comps]_vars

\* A cleaned-up run settled after another instance was left waiting: nothing
\* was written to the cache under its handle.
C26_Witness ==
  /\ pc = "page"
  /\ \E c \in Comps :
       /\ runs[c][1].cancelled
       /\ runs[c][1].result = "dropped"
       /\ avatarCache[runs[c][1].username] = "undefined"
       /\ comps[c].mounted
       /\ comps[c].isLoading /\ ~comps[c].hasFailed

\* The fetch or the cache lookup of the instance for its second username
\* succeeds in this step.
SecondSucceeds(c) ==
  \/ /\ comps[c].effect = 2
     /\ runs[c][2].result # "success"
     /\ runs'[c][2].result = "success"
  \/ /\ comps[c].effect = 1
     /\ comps'[c].effect = 2
     /\ comps'[c].username # ""
     /\ CachedUrl(avatarCache, comps'[c].username)

\* C27: when the fetch for the first username of an instance failed and the
\* fetch or the cache lookup for its second username succeeds, the instance
\* renders the avatar of the second username.
C27_FailureNotCarriedOver ==
  [][\A c \in Comps :
       (runs[c][1].result = "failure" /\ SecondSucceeds(c))
         => Rendered(comps'[c])
              \in {ClientSource(comps'[c].username), EdgeAvatar(comps'[c].username)}]_vars

\* C28: in processAll every status and result on a mapping is the outcome of
\* the OCR request and of the store update of that mapping: a mapping that
\* is processing is the one the loop is at, a mapping with success shows the
\* count of its own screenshot, a mapping with error is one whose own request
\* or update failed; also when other pending mappings are removed meanwhile.
C28_OwnOutcome ==
  \A k \in 1..Len(mappings) :
    LET m == mappings[k]
    IN /\ m.status = "processing"
            => batch.at \in {"ocr", "update"} /\ batch.snapshot[batch.i].id = m.id
       /\ m.status = "success"
            => batch.outcome[m.id] = "success" /\ m.result = FileCount(m.id)
       /\ m.status = "error" => batch.outcome[m.id] = "error"

\* C29: after any sequence of syncs, overlapping or not, no two notes of the
\* user have the same title.
C29_NoDuplicateTitles == \A t \in Titles : notes[t] <= 1

\* C30: for an integer n >= 10,000 the rendering of formatFollowers with the
\* suffix K has a mantissa below 1000: a count that rounds to 1000.0
\* thousand is rendered with the suffix M.
C30_MantissaBelowThousand ==
  (/\ Called("formatFollowers")
   /\ Val(call).arg # NULL
   /\ IsPureDigits(Val(Val(call).arg))
   /\ DigitsToNum(Val(Val(call).arg)) >= 10000
   /\ EndsWith(Val(call).out[1], "K"))
    => DigitsToNum(TakeUntil(Val(call).out[1], {".", "K"})) < 1000

====
